---- MODULE Spec2Model ----
\* Turn-resolution controller of the voice GM (gm_engine/rlm/controller.py):
\* RLMController.handle_turn, the recursive _rlm_step, _interpret_intent,
\* _resolve and the detached _background_post_turn task, together with the
\* collaborators they call (LLM provider, state store, knowledge store,
\* event logger).
\*
\* Text values.  A transcript or a locale tag is a sequence of one-character
\* strings, so that len(), strip(), lower() and split() are computed.  A
\* narration text is a sequence of lower-cased words (the tokens that
\* re.findall(r"[a-zA-Z']+", low) yields); the empty sequence is the text
\* whose strip() is empty.
EXTENDS Integers, Sequences, FiniteSets, TLC

\* ---------------------------------------------------------------- bounds
MaxDepthBound == 1
MaxLlmBound == 2
MaxQueryBound == 1

\* ------------------------------------------------------- program constants
ShortTranscriptLen == 12
EnglishHitsStrong == 2
EnglishLongWords == 6

\* ------------------------------------------------------------ text helpers
UpperChars == <<"A","B","C","D","E","F","G","H","I","J","K","L","M",
                "N","O","P","Q","R","S","T","U","V","W","X","Y","Z">>
LowerChars == <<"a","b","c","d","e","f","g","h","i","j","k","l","m",
                "n","o","p","q","r","s","t","u","v","w","x","y","z">>

LowerChar(c) ==
    IF \E i \in 1..Len(UpperChars) : UpperChars[i] = c
    THEN LowerChars[CHOOSE i \in 1..Len(UpperChars) : UpperChars[i] = c]
    ELSE c

Lower(s) == [i \in 1..Len(s) |-> LowerChar(s[i])]

\* str.strip(): drop leading and trailing blanks.
Strip(s) ==
    LET idx == {i \in 1..Len(s) : s[i] # " "}
    IN  IF idx = {} THEN <<>>
        ELSE LET lo == CHOOSE i \in idx : \A j \in idx : i <= j
                 hi == CHOOSE i \in idx : \A j \in idx : j <= i
             IN  SubSeq(s, lo, hi)

\* `sub in s` for strings.
Contains(s, sub) ==
    \E i \in 0..(Len(s) - Len(sub)) : SubSeq(s, i + 1, i + Len(sub)) = sub

Min(a, b) == IF a <= b THEN a ELSE b
Max(a, b) == IF a >= b THEN a ELSE b

\* `x or y` on strings.
OrElse(x, y) == IF x # <<>> THEN x ELSE y

ReplaceChar(s, a, b) == [i \in 1..Len(s) |-> IF s[i] = a THEN b ELSE s[i]]

\* s.split(sep, 1)[0]
SplitFirst(s, sep) ==
    LET idx == {i \in 1..Len(s) : s[i] = sep}
    IN  IF idx = {} THEN s
        ELSE SubSeq(s, 1, (CHOOSE i \in idx : \A j \in idx : i <= j) - 1)

\* RLMController._lang_base
LangBase(tag) ==
    LET s == Lower(ReplaceChar(Strip(tag), "_", "-"))
    IN  IF s = <<>> THEN <<>> ELSE SplitFirst(s, "-")

CommonWords == {"the", "and", "you", "your", "are", "is", "to", "of", "in",
                "with", "for", "what", "next", "start", "roll", "check"}

\* Words of a script outside a-z: a text holding one has a character in one
\* of the non-Latin ranges tested first by _looks_englishish.
NonLatinWords == {"<cyrillic>"}

\* RLMController._looks_englishish on a stripped text given as its words.
LooksEnglishish(text) ==
    LET latin == SelectSeq(text, LAMBDA w : w \notin NonLatinWords)
        hits == Cardinality({i \in 1..Len(latin) : latin[i] \in CommonWords})
    IN  /\ text # <<>>
        /\ \A i \in 1..Len(text) : text[i] \notin NonLatinWords
        /\ latin # <<>>
        /\ (hits >= EnglishHitsStrong \/ (hits >= 1 /\ Len(latin) >= EnglishLongWords))


\* ------------------------------------------------------------ turn inputs
TranscriptGo == <<"G","o">>
TranscriptLook == <<" "," ","l","o","o","k"," ","a","r","o","u","n","d"," "," ">>
TranscriptAttack == <<"I"," ","a","t","t","a","c","k"," ","t","h","e"," ","g","o","b","l","i","n"," ","w","i","t","h"," ","m","y"," ","s","w","o","r","d">>
Transcripts == {TranscriptGo, TranscriptLook, TranscriptAttack}

LocaleEnUS == <<"e","n","-","U","S">>
LocaleFrFR == <<"f","r","-","F","R">>
Locales == {LocaleEnUS, LocaleFrFR}

\* rlm/types.py TurnContext
Context(turn, text, locale) ==
    [campaign_id |-> "demo", session_id |-> "ws", turn_id |-> turn,
     player_id |-> "player1", transcript_text |-> text, locale |-> locale]

TurnContexts ==
    {Context("1", TranscriptGo, LocaleEnUS), Context("2", TranscriptLook, LocaleFrFR),
     Context("3", TranscriptAttack, LocaleFrFR), Context("4", TranscriptAttack, LocaleEnUS)}

\* rlm/types.py Budget (the SQL read/write ceilings are never read by the controller)
Budgets ==
    [max_depth : 0..MaxDepthBound,
     max_llm_calls_per_turn : 0..MaxLlmBound,
     max_qdrant_queries_per_turn : 0..MaxQueryBound]

\* app/settings.py AppSettings, the fields the controller reads
DefaultTopK == 5
DefaultMemoryTurns == 12
Snapshot(enabled, docs, mode, locale) ==
    [knowledge_enabled |-> enabled, top_k |-> DefaultTopK,
     include_memory |-> TRUE, memory_turns |-> DefaultMemoryTurns,
     active_doc_ids |-> docs, response_language_mode |-> mode,
     voice_locale |-> locale]

SettingsSnapshots ==
    {Snapshot(FALSE, <<>>, "player", LocaleEnUS),
     Snapshot(FALSE, <<>>, "locale", LocaleFrFR),
     Snapshot(TRUE, <<"core">>, "locale", LocaleFrFR),
     Snapshot(TRUE, <<>>, "player", LocaleEnUS)}

\* Replies of the LLM provider, as stripped word sequences.
ReplyEnglish == <<"you", "strike", "the", "goblin">>
ReplyFrench == <<"le", "gobelin", "recule">>
ReplyEmpty == <<>>
LlmReplies == {ReplyEnglish, ReplyFrench, ReplyEmpty}
\* Replies to the classification prompt: a label, or nothing.
IntentLabels == {<<"action">>, ReplyEmpty}

\* Results of knowledge.search.
HitFire == [text |-> <<"goblins", "fear", "fire">>,
            meta |-> [doc_id |-> "core", page |-> "12", type |-> "rules"]]
HitBlank == [text |-> <<>>,
             meta |-> [doc_id |-> "core", page |-> "13", type |-> "rules"]]
SearchResults == {<<>>, <<HitFire>>, <<HitBlank>>}

\* Fixed narrations of the controller.
FallbackText == <<"understood", "describe", "exactly", "what", "you", "do",
                  "and", "i'll", "resolve", "the", "consequences">>
DegradedText == <<"i", "pause", "something", "about", "this", "situation", "is",
                  "unclear", "let's", "simplify", "and", "continue">>

\* ------------------------------------------------------ WorldStateStore
\* The tables: campaigns (id, name, meta), players, interaction_log
\* (campaign_id, entry) in insertion order, the rows of the other models
\* (model, campaign_id, obj) and delayed_events.
EmptyDb == [campaigns |-> <<>>, players |-> {}, interaction_log |-> <<>>,
            rows |-> <<>>, delayed_events |-> <<>>]

\* The campaign rows with primary key id.
CampaignRows(d, id) == SelectSeq(d.campaigns, LAMBDA r : r.id = id)

\* `row is None` of a campaign lookup.
NoCampaign == [id |-> "", name |-> <<>>, meta |-> "null"]

\* f"Campaign {ctx.campaign_id}"
DefaultCampaignName(id) == <<"Campaign", id>>

\* Variant: the row is written again on every call, with the name of the call.
EnsureCampaignRenames(d, id, name) ==
    [d EXCEPT !.campaigns =
        Append(SelectSeq(@, LAMBDA r : r.id # id),
               [id |-> id, name |-> IF name # <<>> THEN name ELSE DefaultCampaignName(id),
                meta |-> "null"])]

\* ensure_campaign: nothing when sess.get finds the row, else add it with
\* `name or f"Campaign {id}"` and no metadata.
EnsureCampaignRow(d, id, name) ==
    IF CampaignRows(d, id) # <<>> THEN d
    ELSE [d EXCEPT !.campaigns =
            Append(@, [id |-> id,
                       name |-> IF name # <<>> THEN name ELSE DefaultCampaignName(id),
                       meta |-> "null"])]

\* params.get(key, default)
ParamOr(params, key, default) == IF key \in DOMAIN params THEN params[key] ELSE default

\* s[-n:] for n >= 1
LastN(s, n) == SubSeq(s, Len(s) - Min(Len(s), n) + 1, Len(s))

DefaultReadLimit == 100
FetchFactor == 5
MinFetch == 200

\* read, kind campaign_snapshot: the first row with the id, or None.
CampaignSnapshot(d, c) ==
    IF CampaignRows(d, c.campaign_id) = <<>> THEN NoCampaign
    ELSE Head(CampaignRows(d, c.campaign_id))

\* Variant: the rows are left in the order of the query, newest first.
InteractionLogReadNewestFirst(d, c, params) ==
    LET limit == ParamOr(params, "limit", DefaultReadLimit)
        mine == SelectSeq(d.interaction_log, LAMBDA r : r.campaign_id = c.campaign_id)
        rows == LastN(mine, Max(limit * FetchFactor, MinFetch))
        entries == [i \in 1..Len(rows) |-> rows[Len(rows) + 1 - i].entry]
        session_id == ParamOr(params, "session_id", "")
        bySession == IF session_id # ""
                     THEN SelectSeq(entries, LAMBDA e : e.session_id = session_id)
                     ELSE entries
        player_id == ParamOr(params, "player_id", "")
        byPlayer == IF player_id # ""
                    THEN SelectSeq(bySession, LAMBDA e : e.player_id = player_id)
                    ELSE bySession
    IN  LastN(byPlayer, Max(1, limit))

\* read, kind interaction_log: the newest max(limit * 5, 200) rows of the
\* campaign, oldest first, filtered by session_id and player_id when given,
\* then the last max(1, limit) of them.  An entry is a JSON map of strings
\* and string lists, which the JSON column gives back as stored.
InteractionLogRead(d, c, params) ==
    LET limit == ParamOr(params, "limit", DefaultReadLimit)
        fetch_limit == Max(limit * FetchFactor, MinFetch)
        mine == SelectSeq(d.interaction_log, LAMBDA r : r.campaign_id = c.campaign_id)
        rows == LastN(mine, fetch_limit)
        entries == [i \in 1..Len(rows) |-> rows[i].entry]
        session_id == ParamOr(params, "session_id", "")
        bySession == IF session_id # ""
                     THEN SelectSeq(entries, LAMBDA e : e.session_id = session_id)
                     ELSE entries
        player_id == ParamOr(params, "player_id", "")
        byPlayer == IF player_id # ""
                    THEN SelectSeq(bySession, LAMBDA e : e.player_id = player_id)
                    ELSE bySession
    IN  LastN(byPlayer, Max(1, limit))

\* WorldStateStore.read for the kinds the controller requests; a kind that
\* was not requested leaves its key out (here: the empty value).
Read(d, c, reads) ==
    LET logs == {i \in 1..Len(reads) : reads[i].kind = "interaction_log"}
    IN  [campaign_id |-> c.campaign_id,
         campaign |-> IF \E i \in 1..Len(reads) : reads[i].kind = "campaign_snapshot"
                      THEN CampaignSnapshot(d, c) ELSE NoCampaign,
         interaction_log |->
            IF logs = {} THEN <<>>
            ELSE InteractionLogRead(d, c,
                    reads[CHOOSE i \in logs : \A j \in logs : j <= i].params)]

KnownModels == {"campaigns", "players", "characters", "npcs", "locations", "quests",
                "factions", "inventory_items", "timeline_events"}

\* A write that raises while the transaction is open: p["entry"], p["due_at"]
\* or p["payload"] missing (KeyError), or an insert whose primary key is
\* already taken in its table (the database rejects it).
WriteRaises(d, w) ==
    IF w.kind = "append_log" THEN "entry" \notin DOMAIN w.params
    ELSE IF w.kind = "schedule_delayed_event"
    THEN "due_at" \notin DOMAIN w.params \/ "payload" \notin DOMAIN w.params
    ELSE /\ w.params.model \in KnownModels
         /\ w.params.op = "insert"
         /\ \E i \in 1..Len(d.rows) :
                d.rows[i].model = w.params.model /\ d.rows[i].obj.id = w.params.obj.id

\* `row` is the row of table `model` with primary key `pk`.
IsRow(row, model, pk) == row.model = model /\ row.obj.id = pk

\* The generic update: sess.get(model_cls, pk), then setattr for every field.
UpdateRow(row, fields) ==
    [row EXCEPT !.obj = fields @@ @,
                !.campaign_id = IF "campaign_id" \in DOMAIN fields
                                THEN fields.campaign_id ELSE @]

\* What one write does inside the transaction of apply_writes; a generic
\* write naming no known model is skipped, and so is an update or a delete
\* without an id.
ApplyOne(d, c, w) ==
    IF w.kind = "append_log"
    THEN [d EXCEPT !.interaction_log =
            Append(@, [campaign_id |-> c.campaign_id, entry |-> w.params.entry])]
    ELSE IF w.kind = "schedule_delayed_event"
    THEN [d EXCEPT !.delayed_events = Append(@, w.params)]
    ELSE IF w.params.model \notin KnownModels THEN d
    ELSE IF w.params.op = "insert"
    THEN [d EXCEPT !.rows = Append(@, [model |-> w.params.model,
                                       campaign_id |-> c.campaign_id,
                                       obj |-> w.params.obj])]
    ELSE IF ParamOr(w.params, "id", <<>>) = <<>> THEN d
    ELSE IF w.params.op = "update"
    THEN [d EXCEPT !.rows =
            [i \in 1..Len(@) |->
                IF IsRow(@[i], w.params.model, w.params.id)
                THEN UpdateRow(@[i], ParamOr(w.params, "fields", <<>>))
                ELSE @[i]]]
    ELSE IF w.params.op = "delete"
    THEN [d EXCEPT !.rows =
            SelectSeq(@, LAMBDA r : ~IsRow(r, w.params.model, w.params.id))]
    ELSE d

\* The loop of apply_writes over the session: stops at the write that raises.
RECURSIVE TxnRun(_, _, _)
TxnRun(work, c, writes) ==
    IF writes = <<>> THEN [ok |-> TRUE, db |-> work]
    ELSE IF WriteRaises(work, Head(writes)) THEN [ok |-> FALSE, db |-> work]
    ELSE TxnRun(ApplyOne(work, c, Head(writes)), c, Tail(writes))

\* Variant: every write is committed on its own, so the writes before the one
\* that raises stay.
ApplyWritesNoRollback(d, c, writes) == TxnRun(d, c, writes)

\* apply_writes: `async with sess.begin()` commits when the loop ends and
\* rolls everything back when a write raises.
ApplyWritesTxn(d, c, writes) ==
    IF TxnRun(d, c, writes).ok THEN TxnRun(d, c, writes)
    ELSE [ok |-> FALSE, db |-> d]
\* ------------------------------------------------------------------ state
VARIABLES
    budget,        \* RLMController.budget
    settings,      \* the AppSettings that RLMController._settings() returns
    resolver,      \* "shipped": _resolve as written; "forced": its extension point
    ctx,           \* the TurnContext handed to handle_turn
    pc,            \* position of handle_turn
    stack,         \* activation records of _rlm_step, innermost last
    plan,          \* local `plan` of handle_turn
    returned,      \* the plan the caller of handle_turn received
    raised,        \* the exception that escaped handle_turn ("" when none)
    llmCalls,      \* llm.complete invocations seen by the provider
    searchCalls,   \* knowledge.search invocations seen by the knowledge store
    applyCalls,    \* the write lists handle_turn passed to state.apply_writes
    db,            \* rows of the state store
    events,        \* records the EventLogger wrote for this turn_id, oldest first
    resolutions,   \* what _resolve returned at each depth of this turn
    bg,            \* the detached _background_post_turn task
    parked,        \* a second handle_turn invocation, suspended at an await
    lastCall,      \* the latest call a client made on the WorldStateStore itself
    processor,     \* the fields of the RLMProcessor
    pipeline,      \* frames the RLMProcessor processed: how many, the handle_turn
                   \* calls it made, the latest frame and what was pushed for it
    manager,       \* the KnowledgeManager: its uploads, its index file, the calls
                   \* in flight on it and the latest call that ended
    control,       \* the ControlProcessor: its lock, the client messages it was
                   \* given and the frames it pushed
    stored,        \* SettingsStore._settings: the player and language fields that
                   \* _normalize_settings governs, and the update calls made
    lanes,         \* process_frame calls of the RLMProcessor in flight at once:
                   \* the processor lock, each call's position, the turns begun
    speakers       \* RLMProcessor._speaker_to_player, the assignments made to it
                   \* and the speaker_map messages pushed

vars == <<budget, settings, resolver, ctx, pc, stack, plan, returned, raised,
          llmCalls, searchCalls, applyCalls, db, events, resolutions, bg,
          parked, lastCall, processor, pipeline, manager, control, stored,
          lanes, speakers>>

\* What the handlers of one invocation never assign.
config == <<budget, settings, resolver, ctx>>
\* The components around the controller.
voice == <<lanes, speakers>>
interaction == <<processor, pipeline, manager, control, stored, voice>>
aside == <<parked, lastCall, interaction>>

NoDebug == [depth |-> -1]
NoPlan == [immediate_text |-> <<>>, followups |-> <<>>, writes |-> <<>>,
           delayed_events |-> <<>>, debug |-> NoDebug]
NoResolution == [immediate_text |-> <<>>, followups |-> <<>>, writes |-> <<>>,
                 delayed_events |-> <<>>, needs_followup |-> FALSE,
                 recurse_reason |-> "", llm_calls_used |-> 0]
NoView == [campaign_id |-> "", campaign |-> NoCampaign, interaction_log |-> <<>>]

\* Variant: the count of completion calls is kept on the controller, shared
\* by every invocation.
NewFrameSharedCounter(depth, llm_calls) ==
    [depth |-> depth, llm_calls |-> Len(llmCalls), phase |-> "enter",
     kind |-> <<>>, reads |-> <<>>, retrievals |-> <<>>, state_view |-> NoView,
     knowledge_hits |-> <<>>, searched |-> 0, immediate |-> <<>>,
     target_lang |-> <<>>, settings |-> settings, resolve_settings |-> settings,
     resolve_llm_calls |-> 0,
     resolution |-> NoResolution, result |-> NoPlan]

\* Locals of one _rlm_step activation.
NewFrame(depth, llm_calls) ==
    [depth |-> depth, llm_calls |-> llm_calls, phase |-> "enter",
     kind |-> <<>>, reads |-> <<>>, retrievals |-> <<>>, state_view |-> NoView,
     knowledge_hits |-> <<>>, searched |-> 0, immediate |-> <<>>,
     target_lang |-> <<>>, settings |-> settings, resolve_settings |-> settings,
     resolve_llm_calls |-> 0,
     resolution |-> NoResolution, result |-> NoPlan]

Top == stack[Len(stack)]
SetTop(f) == [stack EXCEPT ![Len(stack)] = f]

Log(kind) == events' = Append(events, kind)

NoTask == [pc |-> "none", idx |-> 0, plan |-> NoPlan]

\* No second invocation; no call made on the store by a client.
NoTurn == [pc |-> "none"]
NoCall == [op |-> "none", n |-> 0]

\* --------------------------------------------------------- RLMProcessor
\* interaction/pipecat_rlm_processor.py.  The fields of the processor that
\* its frame handling reads and writes; a player id is a string, a transcript
\* a sequence of characters.
NewProcessor ==
    [vad_active |-> FALSE, turn_counter |-> 0,
     pending_campaign_id |-> "", pending_session_id |-> "",
     pending_player_id |-> "", pending_locale |-> <<>>,
     pending_transcript_text |-> <<>>, pending_seen_finalized |-> FALSE,
     last_flushed_player_id |-> "", last_flushed_transcript_text |-> <<>>]

\* Fallbacks of the processor when nothing was staged.
ProcessorPlayerId == "player1"
ProcessorCampaignId == "demo"
ProcessorSessionId == "voice"

\* `x or y` on player, campaign and session ids.
IdOr(x, y) == IF x # "" THEN x ELSE y

\* _merge_transcript_text
MergeTranscriptText(previous, current) ==
    LET prev == Strip(previous)
        cur == Strip(current)
    IN  IF cur = <<>> THEN prev
        ELSE IF prev = <<>> THEN cur
        ELSE IF Contains(prev, cur) THEN prev
        ELSE IF Contains(cur, prev) THEN cur
        ELSE Strip(prev \o <<" ">> \o cur)

\* _stage_pending_turn
StagePendingTurn(p, player_id, locale, transcript_text, finalized) ==
    [p EXCEPT !.pending_campaign_id = ProcessorCampaignId,
              !.pending_session_id = ProcessorSessionId,
              !.pending_player_id = player_id,
              !.pending_locale = Strip(locale),
              !.pending_transcript_text =
                    MergeTranscriptText(p.pending_transcript_text, transcript_text),
              !.pending_seen_finalized = p.pending_seen_finalized \/ finalized]

\* _clear_pending_turn
ClearPendingTurn(p) ==
    [p EXCEPT !.pending_campaign_id = "", !.pending_session_id = "",
              !.pending_player_id = "", !.pending_locale = <<>>,
              !.pending_transcript_text = <<>>, !.pending_seen_finalized = FALSE]

\* The player a flush of the pending turn is attributed to.
FlushPlayerId(p) == IdOr(p.pending_player_id, ProcessorPlayerId)

\* The duplicate test of _flush_pending_turn.
IsDuplicateTurn(p) ==
    /\ FlushPlayerId(p) = p.last_flushed_player_id
    /\ Strip(p.pending_transcript_text) = p.last_flushed_transcript_text

\* The TurnContext _flush_pending_turn builds, the turn counter being advanced.
FlushContext(p) ==
    [campaign_id |-> IdOr(p.pending_campaign_id, ProcessorCampaignId),
     session_id |-> IdOr(p.pending_session_id, ProcessorSessionId),
     turn_id |-> ToString(p.turn_counter + 1),
     player_id |-> FlushPlayerId(p),
     transcript_text |-> Strip(p.pending_transcript_text),
     locale |-> OrElse(p.pending_locale, LocaleEnUS)]

NoContext ==
    [campaign_id |-> "", session_id |-> "", turn_id |-> "", player_id |-> "",
     transcript_text |-> <<>>, locale |-> <<>>]

\* What controller.handle_turn does when the processor awaits it: it raises,
\* or returns a plan with or without a narration to speak.
HandleTurnOutcomes ==
    {[raises |-> TRUE, plan |-> NoPlan],
     [raises |-> FALSE, plan |-> [NoPlan EXCEPT !.immediate_text = ReplyFrench,
                                                !.debug = [depth |-> 0]]],
     [raises |-> FALSE, plan |-> [NoPlan EXCEPT !.debug = [depth |-> 0]]]}

\* The frames pushed after handle_turn returned `pl`.
NarrationFrames(pl) ==
    <<"text">>
    \o (IF pl.debug # NoDebug THEN <<"turn_debug">> ELSE <<>>)
    \o [i \in 1..Len(pl.followups) |-> "text"]
    \o (IF pl.immediate_text # <<>> \/ \E i \in 1..Len(pl.followups) : pl.followups[i] # <<>>
        THEN <<"LLMFullResponseStartFrame", "TextFrame", "LLMFullResponseEndFrame",
               "debug:tts_turn_flush">>
        ELSE <<>>)
    \o <<"debug:turn_done">>

\* Variant: the transcript of a failed turn is remembered as the last one flushed.
FlushPendingTurnRemembersFailure(p, outcome) ==
    IF Strip(p.pending_transcript_text) = <<>>
    THEN [proc |-> p, result |-> "empty", flushed |-> FALSE, ctx |-> NoContext, out |-> <<>>]
    ELSE IF IsDuplicateTurn(p)
    THEN [proc |-> ClearPendingTurn(p), result |-> "deduped", flushed |-> FALSE,
          ctx |-> NoContext, out |-> <<"debug:turn_deduped">>]
    ELSE LET c == FlushContext(p)
             q == [p EXCEPT !.turn_counter = @ + 1,
                            !.last_flushed_player_id = c.player_id,
                            !.last_flushed_transcript_text = c.transcript_text]
             pre == (IF ~p.pending_seen_finalized THEN <<"transcript">> ELSE <<>>)
                    \o <<"debug:turn_start">>
         IN  IF outcome.raises
             THEN [proc |-> ClearPendingTurn(q), result |-> "failed", flushed |-> FALSE,
                   ctx |-> c, out |-> pre \o <<"error", "TextFrame:apology">>]
             ELSE [proc |-> ClearPendingTurn(q), result |-> "handled", flushed |-> TRUE,
                   ctx |-> c, out |-> pre \o NarrationFrames(outcome.plan)]

\* Variant: a pending turn is never compared with the last one flushed.
FlushPendingTurnNoDedup(p, outcome) ==
    IF Strip(p.pending_transcript_text) = <<>>
    THEN [proc |-> p, result |-> "empty", flushed |-> FALSE, ctx |-> NoContext, out |-> <<>>]
    ELSE LET c == FlushContext(p)
             q == [p EXCEPT !.turn_counter = @ + 1]
             pre == (IF ~p.pending_seen_finalized THEN <<"transcript">> ELSE <<>>)
                    \o <<"debug:turn_start">>
         IN  IF outcome.raises
             THEN [proc |-> ClearPendingTurn(q), result |-> "failed", flushed |-> FALSE,
                   ctx |-> c, out |-> pre \o <<"error", "TextFrame:apology">>]
             ELSE [proc |-> ClearPendingTurn(
                               [q EXCEPT !.last_flushed_player_id = c.player_id,
                                         !.last_flushed_transcript_text = c.transcript_text]),
                   result |-> "handled", flushed |-> TRUE,
                   ctx |-> c, out |-> pre \o NarrationFrames(outcome.plan)]

\* _flush_pending_turn with handle_turn behaving as `outcome`: the processor
\* afterwards, whether handle_turn was called (`ctx`) and how it ended, the
\* value returned, and the frames pushed, in order.
FlushPendingTurn(p, outcome) ==
    IF Strip(p.pending_transcript_text) = <<>>
    THEN [proc |-> p, result |-> "empty", flushed |-> FALSE, ctx |-> NoContext, out |-> <<>>]
    ELSE IF IsDuplicateTurn(p)
    THEN [proc |-> ClearPendingTurn(p), result |-> "deduped", flushed |-> FALSE,
          ctx |-> NoContext, out |-> <<"debug:turn_deduped">>]
    ELSE LET c == FlushContext(p)
             q == [p EXCEPT !.turn_counter = @ + 1]
             pre == (IF ~p.pending_seen_finalized THEN <<"transcript">> ELSE <<>>)
                    \o <<"debug:turn_start">>
         IN  IF outcome.raises
             THEN [proc |-> ClearPendingTurn(q), result |-> "failed", flushed |-> FALSE,
                   ctx |-> c, out |-> pre \o <<"error", "TextFrame:apology">>]
             ELSE [proc |-> ClearPendingTurn(
                               [q EXCEPT !.last_flushed_player_id = c.player_id,
                                         !.last_flushed_transcript_text = c.transcript_text]),
                   result |-> "handled", flushed |-> TRUE,
                   ctx |-> c, out |-> pre \o NarrationFrames(outcome.plan)]

\* No frame processed yet.
NoFrame ==
    [kind |-> "none", direction |-> "downstream", text |-> <<>>, player_id |-> "",
     finalized |-> FALSE, result |-> "none", ctx |-> NoContext, out |-> <<>>]
NewPipeline == [frames |-> 0, calls |-> 0, failed |-> 0, last |-> NoFrame]

\* Two process_frame calls can be in flight at once, one for a frame of the
\* VAD ("sys") and one for a transcript ("data").  `lock` is the holder of
\* RLMProcessor._lock, `act` each call's position, `turn_ids` the turn ids
\* handle_turn was called with, oldest first, and `utterance` what was sent
\* so far: the kind of the first frame, how many VAD starts, VAD stops and
\* finalized transcripts, and the players the transcripts were resolved to.
LaneNames == {"sys", "data"}
IdleLane == [pc |-> "idle", kind |-> "none", text |-> <<>>, player_id |-> "",
             finalized |-> FALSE, ctx |-> NoContext]
NoUtterance == [first |-> "none", starts |-> 0, stops |-> 0, finals |-> 0, heard |-> {}]
NewLanes == [lock |-> "", act |-> [l \in LaneNames |-> IdleLane], frames |-> 0,
             turn_ids |-> <<>>, utterance |-> NoUtterance]

\* _speaker_to_player is empty at construction; `assigned` collects the
\* speaker ids given a player in it, `emitted` the speaker_map messages.
NewSpeakers == [speaker_to_player |-> <<>>, assigned |-> {}, emitted |-> <<>>, frames |-> 0]

\* ----------------------------------------------------- KnowledgeManager
\* knowledge/manager.py.  An upload id is the number of the begin_upload call
\* that returned it (uuid4 in the code: never returned twice); a document id
\* is a sequence of characters.
MaxUploads == 2
UploadIds == 1..MaxUploads

Digits == <<"0","1","2","3","4","5","6","7","8","9">>
SlugChars ==
    {LowerChars[i] : i \in 1..Len(LowerChars)} \cup {Digits[i] : i \in 1..Len(Digits)}
        \cup {"_", "-"}

\* re.sub(r"[^a-zA-Z0-9_-]+", "_", s): each run of other characters becomes "_".
RECURSIVE SubRuns(_, _)
SubRuns(s, inRun) ==
    IF s = <<>> THEN <<>>
    ELSE IF Head(s) \in SlugChars THEN <<Head(s)>> \o SubRuns(Tail(s), FALSE)
    ELSE IF inRun THEN SubRuns(Tail(s), TRUE)
    ELSE <<"_">> \o SubRuns(Tail(s), TRUE)

\* str.strip("_")
StripUnderscores(s) ==
    LET idx == {i \in 1..Len(s) : s[i] # "_"}
    IN  IF idx = {} THEN <<>>
        ELSE SubSeq(s, CHOOSE i \in idx : \A j \in idx : i <= j,
                       CHOOSE i \in idx : \A j \in idx : j <= i)

SlugMaxLen == 64
DefaultDocId == <<"r","u","l","e","b","o","o","k">>

\* _slug_doc_id
SlugDocId(value) ==
    LET t == StripUnderscores(SubRuns(Lower(Strip(value)), FALSE))
    IN  OrElse(SubSeq(t, 1, Min(SlugMaxLen, Len(t))), DefaultDocId)

\* base64.b64decode(data_b64.encode("ascii")) of a text of base-64 digits and
\* "=" padding: the number of bytes it yields, or -1 when it raises
\* (a length that is not a multiple of four).
B64Invalid == -1
B64DecodedLen(data_b64) ==
    LET pads == Cardinality({i \in 1..Len(data_b64) : data_b64[i] = "="})
    IN  IF Len(data_b64) % 4 # 0 THEN B64Invalid
        ELSE (Len(data_b64) \div 4) * 3 - pads

\* An _Upload object; `live` while it is in KnowledgeManager._uploads,
\* `returned` once begin_upload has handed its id to the caller.
NoUpload == [doc_id |-> <<>>, received_bytes |-> 0, live |-> FALSE, returned |-> FALSE]

\* The latest manager call that ended: how it ended, the document and the
\* upload it was about, and `pre`: what held when it was made (for an upload
\* call: the id had been returned and not finished; for ingest_doc: the
\* document was in the index).
Ended(op, ok, error, doc_id, upload, pre) ==
    [op |-> op, ok |-> ok, error |-> error, doc_id |-> doc_id, upload |-> upload,
     pre |-> pre]

\* A document of knowledge_index.json; received_bytes is -1 while the key is
\* absent, path is the upload whose file it names.
NoBytes == -1
IndexEntry(doc_id, path) ==
    [doc_id |-> doc_id, path |-> path, status |-> "uploading",
     received_bytes |-> NoBytes, error |-> ""]

\* A manager with no upload begun and an empty index; `qdrant` tells whether
\* a vector store is configured.  accepted[u] sums the decoded lengths of the
\* chunks upload_chunk took for upload u and returned for; finished[u] counts
\* the finish_upload calls on u that returned.  `vectors` are the documents
\* the vector store holds points of, `deleted` those delete_doc returned for
\* and no upload or ingest was begun for since.
NewManager(qdrant) ==
    [qdrant |-> qdrant, issued |-> 0,
     uploads |-> [u \in UploadIds |-> NoUpload],
     index |-> <<>>,
     appending |-> <<>>,
     ingests |-> <<>>,
     accepted |-> [u \in UploadIds |-> 0],
     finished |-> [u \in UploadIds |-> 0],
     vectors |-> {},
     deleted |-> {},
     calls |-> 0,
     last |-> Ended("none", TRUE, "", <<>>, 0, FALSE)]

\* The documents of the index with this id.
HasDoc(index, doc_id) == \E i \in 1..Len(index) : index[i].doc_id = doc_id
DocEntry(index, doc_id) == index[CHOOSE i \in 1..Len(index) : index[i].doc_id = doc_id]

\* _set_doc_status: every document of this id gets the status and the error.
SetDocStatus(index, doc_id, status, error) ==
    [i \in 1..Len(index) |->
        IF index[i].doc_id = doc_id
        THEN [index[i] EXCEPT !.status = status, !.error = error]
        ELSE index[i]]

\* What finish_upload writes into every document of the upload's doc_id.
MarkUploaded(index, u, upload_id) ==
    [i \in 1..Len(index) |->
        IF index[i].doc_id = u.doc_id
        THEN [index[i] EXCEPT !.status = "uploaded",
                              !.received_bytes = u.received_bytes,
                              !.path = upload_id]
        ELSE index[i]]

\* begin_upload: under the lock, register the upload and replace the
\* document's index entry; then create the file, which may fail.
BeginUpload(m, raw_doc_id, created) ==
    LET id == m.issued + 1
        did == SlugDocId(raw_doc_id)
    IN  [m EXCEPT !.issued = id,
                  !.uploads[id] = [doc_id |-> did, received_bytes |-> 0, live |-> TRUE,
                                   returned |-> created],
                  !.last = Ended("begin_upload", created,
                                 IF created THEN "" ELSE "OSError", did, id, TRUE),
                  !.index = SelectSeq(m.index, LAMBDA d : d.doc_id # did)
                            \o <<IndexEntry(did, id)>>,
                  !.deleted = @ \ {did}]

\* Is this the id of an upload in _uploads?
LiveUpload(m, upload_id) == upload_id \in UploadIds /\ m.uploads[upload_id].live

\* finish_upload on an upload in _uploads: pop it, then mark the documents of
\* its doc_id uploaded.
FinishUpload(m, upload_id) ==
    LET u == m.uploads[upload_id]
    IN  [m EXCEPT !.uploads[upload_id].live = FALSE,
                  !.finished[upload_id] = @ + 1,
                  !.index = MarkUploaded(m.index, u, upload_id)]

\* delete_doc, the index part.
DeleteDoc(m, doc_id) ==
    [m EXCEPT !.index = SelectSeq(m.index, LAMBDA d : d.doc_id # doc_id)]

\* ----------------------------------------------------- ControlProcessor
\* interaction/control_processor.py.  msg.get("req_id"): None, or its text.
None == <<>>
ReqIds == {None, <<"r1">>, <<"r2">>}

\* _send: the payload goes out as one OutputTransportMessageUrgentFrame.
Send(type) == [type |-> type]

\* _reply: the payload, with the request's req_id when it has one.
Reply(req_id, type) ==
    IF req_id # None THEN [type |-> type, req_id |-> req_id] ELSE Send(type)

\* The message types of _handle_message taken here, and one it does not know.
MessageTypes ==
    {"settings_get", "kb_upload_chunk", "kb_ingest_start", "prompt_generate", "bogus"}
KnownTypes == MessageTypes \ {"bogus"}

\* The payload type of the result a branch of _handle_message replies with.
ResultType(t) ==
    CASE t = "settings_get" -> "settings"
      [] t = "kb_upload_chunk" -> "kb_upload_chunk_ack"
      [] t = "kb_ingest_start" -> "kb_ingest_started"
      [] t = "prompt_generate" -> "settings"
      [] OTHER -> ""

\* A client message the processor was given: where its process_frame call
\* is, whether its branch raised, and what was pushed on its account:
\* `replies` by _reply, `sends` by _send, `forwarded` the frame itself.
Message(type, req_id, at) ==
    [type |-> type, req_id |-> req_id, at |-> at, raised |-> FALSE,
     replies |-> <<>>, sends |-> <<>>, forwarded |-> <<>>, task |-> "none"]

\* A processor that was given nothing: the lock is free (0: no holder).
NewControl == [frames |-> 0, lock |-> 0, msgs |-> <<>>, passed |-> <<>>]

\* -------------------------------------------------------- SettingsStore
\* app/settings_store.py.  Ids and the language mode are sequences of
\* characters, so that stripping, lowering and slugging do something.
MaxProfiles == 8

\* _slug_id
SlugId(value, fallback) ==
    LET t == StripUnderscores(SubRuns(Lower(Strip(value)), FALSE))
    IN  OrElse(SubSeq(t, 1, Min(SlugMaxLen, Len(t))), fallback)

IdPlayer == <<"p","l","a","y","e","r">>
IdPlayer1 == <<"p","l","a","y","e","r","1">>
ModePlayer == <<"p","l","a","y","e","r">>
ModeLocale == <<"l","o","c","a","l","e">>

Range(seq) == {seq[i] : i \in 1..Len(seq)}

\* The loop over raw_profiles: the slugged ids not seen before, in order,
\* until there are MaxProfiles of them.
RECURSIVE NormalizeProfiles(_, _)
NormalizeProfiles(raw, out) ==
    IF raw = <<>> \/ Len(out) >= MaxProfiles THEN out
    ELSE LET pid == SlugId(Head(raw), IdPlayer)
         IN  IF pid = <<>> \/ pid \in Range(out)
             THEN NormalizeProfiles(Tail(raw), out)
             ELSE NormalizeProfiles(Tail(raw), Append(out, pid))

\* Variant: the active player is the one asked for, profiled or not.
ActivePlayerAsAsked(wanted, profiles) == wanted

\* The active player must be one of the profiles: the first one otherwise.
ActivePlayer(wanted, profiles) ==
    IF wanted \in Range(profiles) THEN wanted ELSE profiles[1]

\* The speaker mappings whose player id slugs to something, slugged.
NormalizeMappings(raw_map) ==
    [k \in {k \in DOMAIN raw_map : SlugId(raw_map[k], <<>>) # <<>>} |->
        SlugId(raw_map[k], <<>>)]

\* _normalize_settings, on the fields taken here.  A profile is taken by its
\* player_id.
NormalizeSettings(v) ==
    LET found == NormalizeProfiles(v.player_profiles, <<>>)
        profiles == IF found # <<>> THEN found
                    ELSE <<SlugId(OrElse(OrElse(v.player_id, v.active_player_id), IdPlayer1),
                                  IdPlayer1)>>
        active == ActivePlayer(SlugId(OrElse(v.active_player_id, v.player_id), IdPlayer1),
                               profiles)
        mode == Lower(Strip(v.response_language_mode))
    IN  [player_profiles |-> profiles,
         speaker_mappings |-> NormalizeMappings(v.speaker_mappings),
         active_player_id |-> active,
         player_id |-> active,
         campaign_id |-> v.campaign_id,
         session_id |-> v.session_id,
         response_language_mode |-> IF mode \in {ModePlayer, ModeLocale} THEN mode
                                    ELSE ModePlayer]

\* AppSettings(): the defaults of app/settings.py.
DefaultSettings ==
    [player_profiles |-> <<IdPlayer1>>, speaker_mappings |-> <<>>,
     active_player_id |-> IdPlayer1, player_id |-> IdPlayer1,
     campaign_id |-> "demo", session_id |-> "ws",
     response_language_mode |-> ModePlayer]

\* _deep_merge of a patch into the settings: a key of the patch replaces,
\* but the speaker mappings, a dict, are merged key by key.
DeepMerge(a, patch) ==
    [k \in DOMAIN a |->
        IF k \notin DOMAIN patch THEN a[k]
        ELSE IF k = "speaker_mappings"
        THEN [x \in DOMAIN a[k] \cup DOMAIN patch[k] |->
                 IF x \in DOMAIN patch[k] THEN patch[k][x] ELSE a[k][x]]
        ELSE patch[k]]

\* SettingsStore.update with a patch AppSettings.model_validate accepts.
Updated(v, patch) == NormalizeSettings(DeepMerge(v, patch))

\* A store constructed from these settings (_load_or_init normalizes what it
\* found); `updates` counts the update calls, `raised` those that raised.
NewStore(raw) == [settings |-> NormalizeSettings(raw), updates |-> 0, raised |-> 0]

\* ------------------------------------------------------------ start
Init ==
    /\ budget \in Budgets
    /\ settings \in SettingsSnapshots
    /\ resolver \in {"shipped", "forced"}
    /\ ctx \in TurnContexts
    /\ pc = "idle"
    /\ stack = <<>>
    /\ plan = NoPlan
    /\ returned = NoPlan
    /\ raised = ""
    /\ llmCalls = <<>>
    /\ searchCalls = 0
    /\ applyCalls = <<>>
    /\ db = EmptyDb
    /\ events = <<>>
    /\ resolutions = <<>>
    /\ bg = NoTask
    /\ parked = NoTurn
    /\ lastCall = NoCall
    /\ processor = NewProcessor
    /\ pipeline = NewPipeline
    /\ manager = NewManager(TRUE)
    /\ control = NewControl
    /\ lanes = NewLanes
    /\ speakers = NewSpeakers
    /\ stored = NewStore(DefaultSettings)

\* Variant: the failure is noted and the turn goes on to its commit.
RaiseAndGoOn(what) ==
    /\ pc' = "apply_writes"
    /\ raised' = what
    /\ stack' = <<>>

\* An exception leaves handle_turn: every activation is unwound.
Raise(what) ==
    /\ pc' = "raised"
    /\ raised' = what
    /\ stack' = <<>>

\* ------------------------------------------------- handle_turn, prologue
\* handle_turn up to `await self.state.ensure_campaign(ctx)`.
HandleTurnStart ==
    /\ pc = "idle"
    /\ Log("turn_started")
    /\ pc' = "ensure_campaign"
    /\ UNCHANGED <<config, aside, resolutions, stack, plan, returned, raised, llmCalls, searchCalls,
                   applyCalls, db, bg>>

\* WorldStateStore.ensure_campaign up to the answer of `await sess.get`: it
\* returns when the row is there, and handle_turn goes on to
\* `await self.state.ensure_player_profile(...)`; or it raises.
EnsureCampaign ==
    /\ pc = "ensure_campaign"
    /\ \/ /\ pc' = IF CampaignRows(db, ctx.campaign_id) # <<>>
                    THEN "ensure_player_profile" ELSE "ensure_campaign_commit"
          /\ UNCHANGED <<raised, stack>>
       \/ Raise("ensure_campaign")
    /\ UNCHANGED <<config, aside, resolutions, plan, returned, llmCalls, searchCalls, applyCalls,
                   db, events, bg>>

\* The row was not there: it is added and the transaction commits.  The
\* primary key rejects the insert when the row was added since the lookup.
EnsureCampaignCommit ==
    /\ pc = "ensure_campaign_commit"
    /\ \/ IF CampaignRows(db, ctx.campaign_id) # <<>>
          THEN /\ Raise("IntegrityError")
               /\ UNCHANGED db
          ELSE /\ db' = EnsureCampaignRow(db, ctx.campaign_id, <<>>)
               /\ pc' = "ensure_player_profile"
               /\ UNCHANGED <<raised, stack>>
       \/ /\ Raise("ensure_campaign")
          /\ UNCHANGED db
    /\ UNCHANGED <<config, aside, resolutions, plan, returned, llmCalls, searchCalls, applyCalls,
                   events, bg>>

\* Variant: a failure of the profile sync is not caught.
EnsurePlayerProfileFatal ==
    /\ pc = "ensure_player_profile"
    /\ \/ /\ db' = [db EXCEPT !.players = @ \cup {ctx.player_id}]
          /\ pc' = "rlm_step"
          /\ stack' = <<NewFrame(0, 0)>>
          /\ UNCHANGED raised
       \/ /\ Raise("ensure_player_profile")
          /\ UNCHANGED db
    /\ UNCHANGED <<config, aside, resolutions, plan, returned, llmCalls, searchCalls,
                   applyCalls, events, bg>>

\* ensure_player_profile returns or raises; `except Exception: pass` swallows
\* the failure, and handle_turn calls _rlm_step(ctx, depth=0, llm_calls=0).
EnsurePlayerProfile ==
    /\ pc = "ensure_player_profile"
    /\ \/ db' = [db EXCEPT !.players = @ \cup {ctx.player_id}]
       \/ UNCHANGED db
    /\ pc' = "rlm_step"
    /\ stack' = <<NewFrame(0, 0)>>
    /\ UNCHANGED <<config, aside, resolutions, plan, returned, raised, llmCalls, searchCalls,
                   applyCalls, events, bg>>

\* ------------------------------------------------- _interpret_intent
\* Keyword lists of _interpret_intent, as character sequences.
QuestionStarts ==
    {<<"w","h","a","t">>,
     <<"w","h","y">>,
     <<"h","o","w">>,
     <<"w","h","o">>,
     <<"w","h","e","r","e">>,
     <<"w","h","e","n">>,
     <<"c","a","n"," ">>,
     <<"d","o"," ">>,
     <<"d","o","e","s"," ">>}

RulesMarkers ==
    {<<"r","u","l","e">>,
     <<"h","o","w"," ","d","o","e","s">>,
     <<"c","a","n"," ","i">>,
     <<"a","l","l","o","w","e","d">>,
     <<"a","t","t","a","c","k">>,
     <<"s","p","e","l","l">>,
     <<"d","a","m","a","g","e">>}

GmAdviceMarkers ==
    {<<"h","o","w"," ","t","o"," ","r","u","n">>,
     <<"g","m">>,
     <<"g","a","m","e"," ","m","a","s","t","e","r">>,
     <<"s","e","s","s","i","o","n">>,
     <<"p","a","c","i","n","g">>,
     <<"i","m","p","r","o","v">>}

CharMarkers ==
    {<<"n","p","c">>,
     <<"c","h","a","r","a","c","t","e","r">>,
     <<"w","h","o"," ","i","s">>,
     <<"w","h","o","'","s">>,
     <<"w","h","o"," ","a","r","e">>}

LocMarkers ==
    {<<"l","o","c","a","t","i","o","n">>,
     <<"w","h","e","r","e"," ","i","s">>,
     <<"w","h","e","r","e","'","s">>,
     <<"t","o","w","n">>,
     <<"c","i","t","y">>,
     <<"v","i","l","l","a","g","e">>,
     <<"d","u","n","g","e","o","n">>}

QuestMarkers ==
    {<<"q","u","e","s","t">>,
     <<"m","i","s","s","i","o","n">>,
     <<"o","b","j","e","c","t","i","v","e">>,
     <<"h","o","o","k">>,
     <<"r","e","w","a","r","d">>}

FactionMarkers ==
    {<<"f","a","c","t","i","o","n">>,
     <<"g","u","i","l","d">>,
     <<"c","l","a","n">>,
     <<"c","u","l","t">>,
     <<"o","r","d","e","r">>}

ItemMarkers ==
    {<<"i","t","e","m">>,
     <<"w","e","a","p","o","n">>,
     <<"a","r","m","o","r">>,
     <<"p","o","t","i","o","n">>,
     <<"a","r","t","i","f","a","c","t">>}

MonsterMarkers ==
    {<<"m","o","n","s","t","e","r">>,
     <<"c","r","e","a","t","u","r","e">>,
     <<"b","e","a","s","t">>,
     <<"d","r","a","g","o","n">>,
     <<"u","n","d","e","a","d">>}

StoryMarkers ==
    {<<"s","t","o","r","y">>,
     <<"p","l","o","t">>,
     <<"s","c","e","n","e">>,
     <<"c","h","a","p","t","e","r">>}

ActionMarkers ==
    {<<"i"," ">>,
     <<"w","e"," ">>,
     <<"a","t","t","a","c","k">>,
     <<"g","o">>,
     <<"t","a","k","e">>,
     <<"u","s","e">>}

StartsWith(s, pre) == Len(pre) <= Len(s) /\ SubSeq(s, 1, Len(pre)) = pre
AnyIn(text, markers) == \E k \in markers : Contains(text, k)

IsQuestion(text) ==
    Contains(text, <<"?">>) \/ \E w \in QuestionStarts : StartsWith(text, w)

\* A filter value: absent, a scalar (match one value) or a list (match any).
Absent == [form |-> "absent", value |-> <<>>]
Scalar(v) == [form |-> "scalar", value |-> <<v>>]
List(vs) == [form |-> "list", value |-> vs]

\* The content-type tags of the matched categories, in the order appended.
MatchedTypes(text) ==
    (IF AnyIn(text, CharMarkers) THEN <<"characters">> ELSE <<>>)
    \o (IF AnyIn(text, LocMarkers) THEN <<"locations">> ELSE <<>>)
    \o (IF AnyIn(text, QuestMarkers) THEN <<"quests">> ELSE <<>>)
    \o (IF AnyIn(text, FactionMarkers) THEN <<"factions">> ELSE <<>>)
    \o (IF AnyIn(text, ItemMarkers) THEN <<"items">> ELSE <<>>)
    \o (IF AnyIn(text, MonsterMarkers) THEN <<"monsters">> ELSE <<>>)
    \o (IF AnyIn(text, StoryMarkers) THEN <<"story">> ELSE <<>>)

DefaultQuestionTypes == <<"lore", "story", "characters", "locations", "quests">>
DefaultActionTypes == <<"rules", "lore", "story", "examples", "tables">>

\* Variant: the rules markers are tested before the GM-advice markers.
RoutingFiltersRulesFirst(text, s) ==
    [doc_id |-> IF s.active_doc_ids # <<>> THEN List(s.active_doc_ids) ELSE Absent,
     doc_kind |-> IF ~AnyIn(text, RulesMarkers) /\ AnyIn(text, GmAdviceMarkers)
                  THEN Scalar("gm_advice") ELSE Absent,
     type |-> IF AnyIn(text, RulesMarkers) THEN Scalar("rules")
              ELSE IF AnyIn(text, GmAdviceMarkers) THEN Absent
              ELSE IF MatchedTypes(text) # <<>> THEN List(MatchedTypes(text))
              ELSE IF IsQuestion(text) THEN List(DefaultQuestionTypes)
              ELSE List(DefaultActionTypes)]

\* The `filters` dict of the RetrievalSpec.
RoutingFilters(text, s) ==
    [doc_id |-> IF s.active_doc_ids # <<>> THEN List(s.active_doc_ids) ELSE Absent,
     doc_kind |-> IF AnyIn(text, GmAdviceMarkers) THEN Scalar("gm_advice") ELSE Absent,
     type |-> IF AnyIn(text, GmAdviceMarkers) THEN Absent
              ELSE IF AnyIn(text, RulesMarkers) THEN Scalar("rules")
              ELSE IF MatchedTypes(text) # <<>> THEN List(MatchedTypes(text))
              ELSE IF IsQuestion(text) THEN List(DefaultQuestionTypes)
              ELSE List(DefaultActionTypes)]

\* The state reads requested by every step.
IntentReads(s) ==
    <<[kind |-> "campaign_snapshot", params |-> <<>>]>>
    \o (IF s.include_memory /\ s.memory_turns > 0
        THEN <<[kind |-> "interaction_log", params |-> [limit |-> s.memory_turns]]>>
        ELSE <<>>)

\* Variant: a retrieval is proposed whether or not knowledge is enabled.
IntentRetrievalsAlways(c, s) ==
    <<[query |-> c.transcript_text,
       top_k |-> IF s.top_k > 0 THEN s.top_k ELSE DefaultTopK,
       filters |-> RoutingFilters(Lower(Strip(c.transcript_text)), s)]>>

\* The retrievals proposed by one step: one spec when knowledge is enabled.
IntentRetrievals(c, s) ==
    IF s.knowledge_enabled
    THEN <<[query |-> c.transcript_text,
            top_k |-> IF s.top_k > 0 THEN s.top_k ELSE DefaultTopK,
            filters |-> RoutingFilters(Lower(Strip(c.transcript_text)), s)]>>
    ELSE <<>>

\* The heuristic intent label.
HeuristicKind(text) ==
    IF AnyIn(text, ActionMarkers) THEN <<"action">> ELSE <<"question">>

\* Variant: the classification call is made for every short transcript,
\* whatever the count of calls already made.
NeedsClassifyUnbudgeted(c, llm_calls) ==
    Len(Lower(Strip(c.transcript_text))) < ShortTranscriptLen

\* Variant: the length is taken of the transcript as received, blanks included.
NeedsClassifyUnstripped(c, llm_calls) ==
    /\ Len(Lower(c.transcript_text)) < ShortTranscriptLen
    /\ llm_calls < budget.max_llm_calls_per_turn

\* The guard of the classification call.
NeedsClassify(c, llm_calls) ==
    /\ Len(Lower(Strip(c.transcript_text))) < ShortTranscriptLen
    /\ llm_calls < budget.max_llm_calls_per_turn

\* ------------------------------------------------------------ _resolve
MaxSnippets == 3
MaxSources == 5

\* _format_snippets: the first max_snippets hits with a non-empty text, each
\* under its header; the empty sequence renders as "(none)".
FormatSnippets(hits) ==
    LET firstHits == SubSeq(hits, 1, Min(MaxSnippets, Len(hits)))
        kept == SelectSeq(firstHits, LAMBDA h : h.text # <<>>)
    IN  [i \in 1..Len(kept) |-> [hdr |-> kept[i].meta, text |-> kept[i].text]]

\* _knowledge_sources: distinct (doc_id, page, type) labels in order of first
\* occurrence, at most max_sources of them.
RECURSIVE DistinctSources(_, _)
DistinctSources(hits, seen) ==
    IF hits = <<>> \/ Len(seen) >= MaxSources THEN seen
    ELSE IF \E i \in 1..Len(seen) : seen[i] = Head(hits).meta
         THEN DistinctSources(Tail(hits), seen)
         ELSE DistinctSources(Tail(hits), Append(seen, Head(hits).meta))

KnowledgeSources(hits) == DistinctSources(hits, <<>>)

DetectedLang(c) == Strip(c.locale)

\* Variant: in locale mode the player's tag is preferred to the configured one.
TargetLangPlayerFirst(c, s) ==
    IF s.response_language_mode = "locale"
    THEN OrElse(Strip(OrElse(DetectedLang(c), OrElse(s.voice_locale, LocaleEnUS))),
                LocaleEnUS)
    ELSE OrElse(DetectedLang(c), LocaleEnUS)

\* target_lang of _resolve.
TargetLang(c, s) ==
    IF s.response_language_mode = "locale"
    THEN OrElse(Strip(OrElse(s.voice_locale, OrElse(DetectedLang(c), LocaleEnUS))),
                LocaleEnUS)
    ELSE OrElse(DetectedLang(c), LocaleEnUS)

\* The language-policy clause of the system prompt.
LanguagePolicy(c, s) ==
    IF s.response_language_mode = "locale"
    THEN [clause |-> "reply_only_in_locale", lang |-> TargetLang(c, s)]
    ELSE IF DetectedLang(c) # <<>>
         THEN [clause |-> "reply_only_in_player_language", lang |-> DetectedLang(c)]
         ELSE [clause |-> "reply_in_language_of_utterance", lang |-> <<>>]

\* The system prompt of the narration call: resolve_system, the language
\* policy and, when snippets were found, the knowledge policy.
ResolveSystemPrompt(c, s, hits) ==
    [language_policy |-> LanguagePolicy(c, s),
     kb_policy |-> FormatSnippets(hits) # <<>>,
     snippets |-> FormatSnippets(hits)]

\* Variant: the base tag of the target is not compared with "en".
WantsTranslationAnyTarget(target_lang, immediate) ==
    /\ LangBase(target_lang) # <<>>
    /\ LooksEnglishish(immediate)

\* The guard of the translation post-pass, budget aside.
WantsTranslation(target_lang, immediate) ==
    /\ LangBase(target_lang) # <<>>
    /\ LangBase(target_lang) # <<"e", "n">>
    /\ LooksEnglishish(immediate)

\* Variant: the narration call is still made when the count equals the ceiling.
\* Variant: the narration call is made whatever the count.
ResolveHasBudgetIgnored(llm_calls) == TRUE

ResolveHasBudgetInclusive(llm_calls) == llm_calls <= budget.max_llm_calls_per_turn

\* The guard of the narration call.
ResolveHasBudget(llm_calls) == llm_calls < budget.max_llm_calls_per_turn

\* Variant: the resolver reports unresolved effects on every narration.
ShippedResolutionUnresolved(immediate, llm_calls) ==
    [immediate_text |-> immediate, followups |-> <<>>, writes |-> <<>>,
     delayed_events |-> <<>>, needs_followup |-> TRUE, recurse_reason |-> "unresolved",
     llm_calls_used |-> llm_calls]

\* What the resolver of this controller returns (the closing return of
\* _resolve): no follow-ups, writes or delayed events, needs_followup false.
ShippedResolution(immediate, llm_calls) ==
    [immediate_text |-> immediate, followups |-> <<>>, writes |-> <<>>,
     delayed_events |-> <<>>, needs_followup |-> FALSE, recurse_reason |-> "",
     llm_calls_used |-> llm_calls]

\* The extension point: a resolver that reports unresolved effects, and may
\* propose a follow-up text, a generic write and a delayed event of its level.
ExtFollowup(depth) == <<"aftermath", ToString(depth)>>
ExtWrite(depth) ==
    [kind |-> "generic",
     params |-> [op |-> "insert", model |-> "timeline_events",
                 obj |-> [id |-> <<ctx.turn_id, depth>>]]]
ExtEvent(depth) == [due_at |-> depth, payload |-> "effect"]

ForcedResolution(immediate, llm_calls, choice, depth) ==
    [immediate_text |-> immediate,
     followups |-> <<ExtFollowup(depth)>>,
     writes |-> <<ExtWrite(depth)>>,
     delayed_events |-> <<ExtEvent(depth)>>,
     needs_followup |-> choice,
     recurse_reason |-> IF choice THEN "unresolved" ELSE "",
     llm_calls_used |-> llm_calls]

\* The needs_followup outcomes a resolver can report.
ResolverChoices == IF resolver = "shipped" THEN {FALSE} ELSE BOOLEAN

MakeResolution(immediate, llm_calls, choice, depth) ==
    IF resolver = "shipped"
    THEN ShippedResolution(immediate, llm_calls)
    ELSE ForcedResolution(immediate, llm_calls, choice, depth)

\* ------------------------------------------------------------ _rlm_step
\* The diagnostics of a step that ran.
StepDebug(f) ==
    [depth |-> f.depth,
     knowledge_enabled |-> f.settings.knowledge_enabled,
     retrieval_queries |-> Len(f.retrievals),
     knowledge_hits |-> Len(f.knowledge_hits),
     knowledge_sources |-> KnowledgeSources(f.knowledge_hits),
     response_language_mode |-> f.settings.response_language_mode,
     response_language_tag |-> ctx.locale]

\* The plan returned when depth > max_depth.
DegradedPlan(depth) ==
    [immediate_text |-> DegradedText, followups |-> <<>>, writes |-> <<>>,
     delayed_events |-> <<>>,
     debug |-> [depth |-> depth, reason |-> "max_depth_exceeded"]]

\* The plan of a step that does not recurse.
LeafPlan(f) ==
    [immediate_text |-> f.resolution.immediate_text,
     followups |-> f.resolution.followups,
     writes |-> f.resolution.writes,
     delayed_events |-> f.resolution.delayed_events,
     debug |-> StepDebug(f)]

\* Variant: the recursive call's writes and events are put first.
MergedPlanFollowFirst(f, follow) ==
    [immediate_text |-> f.resolution.immediate_text,
     followups |-> f.resolution.followups \o <<follow.immediate_text>> \o follow.followups,
     writes |-> follow.writes \o f.resolution.writes,
     delayed_events |-> follow.delayed_events \o f.resolution.delayed_events,
     debug |-> [depth |-> f.depth,
                knowledge_enabled |-> f.settings.knowledge_enabled,
                retrieval_queries |-> Len(f.retrievals),
                knowledge_hits |-> Len(f.knowledge_hits),
                knowledge_sources |-> KnowledgeSources(f.knowledge_hits),
                response_language_mode |-> f.settings.response_language_mode,
                response_language_tag |-> ctx.locale,
                followup |-> follow.debug]]

\* The merge of a step with the plan of its recursive call.
MergedPlan(f, follow) ==
    [immediate_text |-> f.resolution.immediate_text,
     followups |-> f.resolution.followups \o <<follow.immediate_text>> \o follow.followups,
     writes |-> f.resolution.writes \o follow.writes,
     delayed_events |-> f.resolution.delayed_events \o follow.delayed_events,
     debug |-> [depth |-> f.depth,
                knowledge_enabled |-> f.settings.knowledge_enabled,
                retrieval_queries |-> Len(f.retrievals),
                knowledge_hits |-> Len(f.knowledge_hits),
                knowledge_sources |-> KnowledgeSources(f.knowledge_hits),
                response_language_mode |-> f.settings.response_language_mode,
                response_language_tag |-> ctx.locale,
                followup |-> follow.debug]]

\* The depth guard on entry of _rlm_step.
DepthExceeded(depth) == depth > budget.max_depth

\* Variant: the step also calls itself when it is at the last depth.
ShouldRecurseAtMaxDepth(f) == f.resolution.needs_followup /\ f.depth <= budget.max_depth

\* The condition under which a step calls itself.
ShouldRecurse(f) == f.resolution.needs_followup /\ f.depth < budget.max_depth

\* The retrievals a step executes: retrievals[:max_qdrant_queries_per_turn],
\* and none when the list is empty or the ceiling is not positive.
RetrievalsToRun(f) ==
    IF f.retrievals # <<>> /\ budget.max_qdrant_queries_per_turn > 0
    THEN SubSeq(f.retrievals, 1, Min(budget.max_qdrant_queries_per_turn, Len(f.retrievals)))
    ELSE <<>>

InStep == pc = "rlm_step" /\ stack # <<>>

\* _resolve returns to the step f with narration `immediate`.
Resolved(f, immediate, llm_calls, choice) ==
    LET r == MakeResolution(immediate, llm_calls, choice, f.depth)
    IN  /\ stack' = SetTop([f EXCEPT !.llm_calls = llm_calls,
                                     !.immediate = immediate,
                                     !.resolution = r,
                                     !.phase = "resolved"])
        /\ resolutions' = Append(resolutions, r)

\* Entry of _rlm_step: read the settings, check the depth.
RlmStepEnter ==
    /\ InStep /\ Top.phase = "enter"
    /\ IF DepthExceeded(Top.depth)
       THEN /\ Log("error:max_depth_exceeded")
            /\ stack' = SetTop([Top EXCEPT !.settings = settings,
                                           !.result = DegradedPlan(Top.depth),
                                           !.phase = "ret"])
       ELSE /\ stack' = SetTop([Top EXCEPT !.settings = settings, !.phase = "interpret"])
            /\ UNCHANGED events
    /\ UNCHANGED <<config, aside, resolutions, pc, plan, returned, raised, llmCalls, searchCalls,
                   applyCalls, db, bg>>

\* _interpret_intent up to its first await: the classification call when the
\* transcript is short and budget remains, else the heuristic label and the
\* state read of _rlm_step.
InterpretIntent ==
    /\ InStep /\ Top.phase = "interpret"
    /\ LET f == [Top EXCEPT !.reads = IntentReads(settings),
                            !.retrievals = IntentRetrievals(ctx, settings)]
       IN  IF NeedsClassify(ctx, Top.llm_calls)
           THEN /\ Log("llm_call:intent_classify")
                /\ stack' = SetTop([f EXCEPT !.phase = "classify"])
           ELSE /\ stack' = SetTop([f EXCEPT
                        !.kind = HeuristicKind(Lower(Strip(ctx.transcript_text))),
                        !.phase = "read"])
                /\ UNCHANGED events
    /\ UNCHANGED <<config, aside, resolutions, pc, plan, returned, raised, llmCalls, searchCalls,
                   applyCalls, db, bg>>

\* The classification completion returns or raises.  An empty reply makes
\* out.strip().splitlines()[0] raise IndexError.
LlmClassify ==
    /\ InStep /\ Top.phase = "classify"
    /\ llmCalls' = Append(llmCalls,
            [phase |-> "intent_classify", turn |-> ctx.turn_id, depth |-> Top.depth])
    /\ \/ \E out \in IntentLabels :
            IF out = <<>>
            THEN Raise("IndexError")
            ELSE /\ stack' = SetTop([Top EXCEPT !.llm_calls = @ + 1,
                                                !.kind = out,
                                                !.phase = "read"])
                 /\ UNCHANGED <<pc, raised>>
       \/ Raise("llm.complete")
    /\ UNCHANGED <<config, aside, resolutions, plan, returned, searchCalls, applyCalls, db, events, bg>>

\* What state.read returns to the step.
StateView(reads) == Read(db, ctx, reads)

\* state.read returns or raises.
StateRead ==
    /\ InStep /\ Top.phase = "read"
    /\ \/ /\ stack' = SetTop([Top EXCEPT !.state_view = StateView(Top.reads),
                                         !.phase = "search"])
          /\ UNCHANGED <<pc, raised>>
       \/ Raise("state.read")
    /\ UNCHANGED <<config, aside, resolutions, plan, returned, llmCalls, searchCalls, applyCalls,
                   db, events, bg>>

\* One knowledge.search of the retrieval loop returns or raises.
KnowledgeSearch ==
    /\ InStep /\ Top.phase = "search"
    /\ Top.searched < Len(RetrievalsToRun(Top))
    /\ searchCalls' = searchCalls + 1
    /\ \/ \E hits \in SearchResults :
            /\ stack' = SetTop([Top EXCEPT !.knowledge_hits = @ \o hits,
                                           !.searched = @ + 1])
            /\ UNCHANGED <<pc, raised>>
       \/ Raise("knowledge.search")
    /\ UNCHANGED <<config, aside, resolutions, plan, returned, llmCalls, applyCalls, db, events, bg>>

\* _resolve up to its first await: the narration call while budget remains,
\* else the fixed fallback narration.
ResolveBegin ==
    /\ InStep /\ Top.phase = "search"
    /\ Top.searched >= Len(RetrievalsToRun(Top))
    /\ IF ResolveHasBudget(Top.llm_calls)
       THEN /\ Log("llm_call:resolve")
            /\ stack' = SetTop([Top EXCEPT !.target_lang = TargetLang(ctx, settings),
                                           !.resolve_settings = settings,
                                           !.resolve_llm_calls = Top.llm_calls,
                                           !.phase = "draft"])
            /\ UNCHANGED resolutions
       ELSE /\ \E choice \in ResolverChoices :
                 Resolved([Top EXCEPT !.resolve_settings = settings,
                                      !.resolve_llm_calls = Top.llm_calls],
                          FallbackText, Top.llm_calls, choice)
            /\ UNCHANGED events
    /\ UNCHANGED <<config, aside, pc, plan, returned, raised, llmCalls, searchCalls,
                   applyCalls, db, bg>>

\* The narration completion returns or raises; then the translation post-pass
\* is started when the draft looks English, the target is not, and budget remains.
LlmDraft ==
    /\ InStep /\ Top.phase = "draft"
    /\ llmCalls' = Append(llmCalls,
            [phase |-> "resolve", turn |-> ctx.turn_id, depth |-> Top.depth,
             system |-> ResolveSystemPrompt(ctx, Top.resolve_settings, Top.knowledge_hits)])
    /\ \/ \E out \in LlmReplies :
            LET calls == Top.llm_calls + 1
            IN  IF /\ WantsTranslation(Top.target_lang, out)
                   /\ calls < budget.max_llm_calls_per_turn
                THEN /\ Log("llm_call:resolve_translate")
                     /\ stack' = SetTop([Top EXCEPT !.llm_calls = calls,
                                                    !.immediate = out,
                                                    !.phase = "translate"])
                     /\ UNCHANGED <<pc, raised>>
                     /\ UNCHANGED resolutions
                ELSE /\ \E choice \in ResolverChoices : Resolved(Top, out, calls, choice)
                     /\ UNCHANGED <<pc, raised, events>>
       \/ /\ Raise("llm.complete")
          /\ UNCHANGED <<events, resolutions>>
    /\ UNCHANGED <<config, aside, plan, returned, searchCalls, applyCalls, db, bg>>

\* The translation completion returns or raises; a non-empty translation
\* replaces the draft.
LlmTranslate ==
    /\ InStep /\ Top.phase = "translate"
    /\ llmCalls' = Append(llmCalls,
            [phase |-> "resolve_translate", turn |-> ctx.turn_id, depth |-> Top.depth,
             target_lang |-> Top.target_lang])
    /\ \/ \E tr \in LlmReplies, choice \in ResolverChoices :
            LET calls == Top.llm_calls + 1
                text == IF tr # <<>> THEN tr ELSE Top.immediate
            IN  /\ Resolved(Top, text, calls, choice)
                /\ UNCHANGED <<pc, raised>>
       \/ /\ Raise("llm.complete")
          /\ UNCHANGED resolutions
    /\ UNCHANGED <<config, aside, plan, returned, searchCalls, applyCalls, db, events, bg>>

\* Unresolved effects and depth left: the step calls itself at depth + 1.
Recurse ==
    /\ InStep /\ Top.phase = "resolved"
    /\ ShouldRecurse(Top)
    /\ Log("rlm_recurse")
    /\ stack' = Append(SetTop([Top EXCEPT !.phase = "follow"]),
                       NewFrame(Top.depth + 1, Top.resolution.llm_calls_used))
    /\ UNCHANGED <<config, aside, resolutions, pc, plan, returned, raised, llmCalls, searchCalls,
                   applyCalls, db, bg>>

\* Otherwise the step returns its own plan.
StepReturn ==
    /\ InStep /\ Top.phase = "resolved"
    /\ ~ShouldRecurse(Top)
    /\ stack' = SetTop([Top EXCEPT !.result = LeafPlan(Top), !.phase = "ret"])
    /\ UNCHANGED <<config, aside, resolutions, pc, plan, returned, raised, llmCalls, searchCalls,
                   applyCalls, db, events, bg>>

\* The recursive call returned: the caller merges and returns.
MergeFollow ==
    /\ InStep /\ Len(stack) > 1 /\ Top.phase = "ret"
    /\ LET parent == stack[Len(stack) - 1]
       IN  stack' = Append(SubSeq(stack, 1, Len(stack) - 2),
                           [parent EXCEPT !.result = MergedPlan(parent, Top.result),
                                          !.phase = "ret"])
    /\ UNCHANGED <<config, aside, resolutions, pc, plan, returned, raised, llmCalls, searchCalls,
                   applyCalls, db, events, bg>>

\* ------------------------------------------------- handle_turn, epilogue
\* The interaction-log record of the turn.
LogEntry(c, p) ==
    [kind |-> "turn", campaign_id |-> c.campaign_id, session_id |-> c.session_id,
     turn_id |-> c.turn_id, player_id |-> c.player_id, locale |-> c.locale,
     player_text |-> c.transcript_text, gm_text |-> p.immediate_text,
     followups |-> p.followups]

\* Variant: the log write is left out when the step recursed.
WithLogWriteUnlessFollowups(c, p) ==
    IF p.followups # <<>> THEN p
    ELSE [p EXCEPT !.writes = p.writes \o
            <<[kind |-> "append_log", params |-> [entry |-> LogEntry(c, p)]]>>]

\* The plan of handle_turn: the step's plan with the append_log write added.
WithLogWrite(c, p) ==
    [p EXCEPT !.writes = p.writes \o
        <<[kind |-> "append_log", params |-> [entry |-> LogEntry(c, p)]]>>]

\* _rlm_step(depth=0) returned: append the log write, call state.apply_writes.
AppendLog ==
    /\ InStep /\ Len(stack) = 1 /\ Top.phase = "ret"
    /\ plan' = WithLogWrite(ctx, Top.result)
    /\ stack' = <<>>
    /\ pc' = "apply_writes"
    /\ UNCHANGED <<config, aside, resolutions, returned, raised, llmCalls, searchCalls, applyCalls,
                   db, events, bg>>

\* Variant: a failure of the commit is swallowed and the turn goes on.
ApplyWritesSwallowed ==
    /\ pc = "apply_writes"
    /\ applyCalls' = Append(applyCalls, plan.writes)
    /\ \/ db' = ApplyWritesTxn(db, ctx, plan.writes).db
       \/ UNCHANGED db
    /\ pc' = "committed"
    /\ UNCHANGED <<config, aside, resolutions, raised, stack, plan, returned, llmCalls,
                   searchCalls, events, bg>>

\* state.apply_writes commits the whole list and returns, or raises: a write
\* of the list raised, or the database failed; db is what the transaction left.
ApplyWrites ==
    /\ pc = "apply_writes"
    /\ applyCalls' = Append(applyCalls, plan.writes)
    /\ \/ /\ ApplyWritesTxn(db, ctx, plan.writes).ok
          /\ db' = ApplyWritesTxn(db, ctx, plan.writes).db
          /\ pc' = "committed"
          /\ UNCHANGED <<raised, stack>>
       \/ /\ Raise("apply_writes")
          /\ db' = IF ApplyWritesTxn(db, ctx, plan.writes).ok THEN db
                   ELSE ApplyWritesTxn(db, ctx, plan.writes).db
    /\ UNCHANGED <<config, aside, resolutions, plan, returned, llmCalls, searchCalls, events, bg>>

\* Variant: the coroutine is awaited, so it has run when control comes back.
AwaitTask(p) == [pc |-> "done", idx |-> Len(p.delayed_events) + 1, plan |-> p]

\* asyncio.create_task: the coroutine is scheduled, not run.
CreateTask(p) == [pc |-> "created", idx |-> 1, plan |-> p]

\* After the commit: create the background task, log turn_finished, return.
FinishTurn ==
    /\ pc = "committed"
    /\ bg' = CreateTask(plan)
    /\ Log("turn_finished")
    /\ returned' = plan
    /\ pc' = "returned"
    /\ UNCHANGED <<config, aside, resolutions, stack, plan, raised, llmCalls, searchCalls, applyCalls, db>>

\* ------------------------------------------------ _background_post_turn
\* Variant: the failure is logged and raised again.
BackgroundFailureReraised ==
    /\ Log("error:background_post_turn_failed")
    /\ bg' = [bg EXCEPT !.pc = "done"]
    /\ pc' = "raised"
    /\ raised' = "background_post_turn"
    /\ UNCHANGED <<returned, plan>>

\* Where a failure of the background work goes: the except clause logs it.
BackgroundFailure ==
    /\ Log("error:background_post_turn_failed")
    /\ bg' = [bg EXCEPT !.pc = "done"]
    /\ UNCHANGED <<pc, raised, returned, plan>>

\* logger.append_narration(ctx, plan) returns or raises.
BgAppendNarration ==
    /\ bg.pc = "created"
    /\ \/ /\ Log("narration")
          /\ bg' = [bg EXCEPT !.pc = "events"]
          /\ UNCHANGED <<pc, raised, returned, plan>>
       \/ BackgroundFailure
    /\ UNCHANGED <<config, aside, resolutions, stack, llmCalls, searchCalls, applyCalls, db>>

\* state.schedule_delayed_event(ctx, ev) for the next event returns or raises.
BgScheduleEvent ==
    /\ bg.pc = "events"
    /\ bg.idx <= Len(bg.plan.delayed_events)
    /\ \/ /\ db' = ApplyOne(db, ctx,
                     [kind |-> "schedule_delayed_event",
                      params |-> bg.plan.delayed_events[bg.idx]])
          /\ bg' = [bg EXCEPT !.idx = @ + 1]
          /\ UNCHANGED <<pc, raised, returned, plan, events>>
       \/ /\ BackgroundFailure
          /\ UNCHANGED db
    /\ UNCHANGED <<config, aside, resolutions, stack, llmCalls, searchCalls, applyCalls>>

\* The loop over the delayed events is over: the task ends.
BgFinish ==
    /\ bg.pc = "events"
    /\ bg.idx > Len(bg.plan.delayed_events)
    /\ bg' = [bg EXCEPT !.pc = "done"]
    /\ UNCHANGED <<config, aside, resolutions, pc, stack, plan, returned, raised, llmCalls,
                   searchCalls, applyCalls, db, events>>

\* ------------------------------------- direct calls on the WorldStateStore
\* A client other than handle_turn calls ensure_campaign, apply_writes and
\* read one after the other, each call completing before the next.
MaxStoreCalls == 3

CampaignIds == {"demo", "keep"}
StoreContexts ==
    {[Context("1", TranscriptGo, LocaleEnUS) EXCEPT !.campaign_id = id] : id \in CampaignIds}
CampaignNames == {<<>>, <<"Moria">>}

\* Two log entries of different sessions.
EntryOne == LogEntry(Context("1", TranscriptGo, LocaleEnUS), NoPlan)
EntryTwo ==
    LogEntry([Context("2", TranscriptLook, LocaleFrFR) EXCEPT !.session_id = "ws2"], NoPlan)

LogWrite(entry) == [kind |-> "append_log", params |-> [entry |-> entry]]
BadLogWrite == [kind |-> "append_log", params |-> [note |-> "no entry"]]
UnknownModelWrite ==
    [kind |-> "generic",
     params |-> [op |-> "insert", model |-> "spells", obj |-> [id |-> <<"s", 0>>]]]
InsertWrite ==
    [kind |-> "generic",
     params |-> [op |-> "insert", model |-> "timeline_events", obj |-> [id |-> <<"t", 0>>]]]

UpdateWrite ==
    [kind |-> "generic",
     params |-> [op |-> "update", model |-> "timeline_events", id |-> <<"t", 0>>,
                 fields |-> [title |-> "dawn"]]]
DeleteWrite ==
    [kind |-> "generic",
     params |-> [op |-> "delete", model |-> "timeline_events", id |-> <<"t", 0>>]]

StoreWriteLists ==
    {<<LogWrite(EntryOne)>>,
     <<UpdateWrite>>,
     <<DeleteWrite>>,
     <<LogWrite(EntryOne), LogWrite(EntryTwo)>>,
     <<LogWrite(EntryTwo), BadLogWrite>>,
     <<UnknownModelWrite, LogWrite(EntryTwo)>>,
     <<InsertWrite>>,
     <<LogWrite(EntryOne), InsertWrite>>}

SnapshotRead == [kind |-> "campaign_snapshot", params |-> <<>>]
LogRead(params) == [kind |-> "interaction_log", params |-> params]
StoreReadLists ==
    {<<SnapshotRead>>,
     <<LogRead([limit |-> 1])>>,
     <<LogRead([limit |-> 3])>>,
     <<LogRead([limit |-> 3, session_id |-> "ws2"])>>,
     <<SnapshotRead, LogRead(<<>>)>>}

Call(op, c, name, writes, reads, ok, out) ==
    [op |-> op, n |-> lastCall.n + 1, ctx |-> c, name |-> name, writes |-> writes,
     reads |-> reads, ok |-> ok, before |-> db, out |-> out]

turn == <<pc, stack, plan, returned, raised, resolutions, applyCalls, bg,
          llmCalls, searchCalls, events>>

\* await store.ensure_campaign(ctx, name=name)
StoreEnsureCampaign ==
    /\ lastCall.n < MaxStoreCalls
    /\ \E c \in StoreContexts, name \in CampaignNames :
          /\ db' = EnsureCampaignRow(db, c.campaign_id, name)
          /\ lastCall' = Call("ensure_campaign", c, name, <<>>, <<>>, TRUE, NoView)
    /\ UNCHANGED <<config, parked, turn, interaction>>

\* await store.apply_writes(ctx, writes)
StoreApplyWrites ==
    /\ lastCall.n < MaxStoreCalls
    /\ \E c \in StoreContexts, writes \in StoreWriteLists :
          /\ db' = ApplyWritesTxn(db, c, writes).db
          /\ lastCall' = Call("apply_writes", c, <<>>, writes, <<>>,
                              ApplyWritesTxn(db, c, writes).ok, NoView)
    /\ UNCHANGED <<config, parked, turn, interaction>>

\* await store.read(ctx, reads)
StoreRead ==
    /\ lastCall.n < MaxStoreCalls
    /\ \E c \in StoreContexts, reads \in StoreReadLists :
          lastCall' = Call("read", c, <<>>, <<>>, reads, TRUE, Read(db, c, reads))
    /\ UNCHANGED <<config, parked, turn, db, interaction>>

StoreInit ==
    /\ Init
    /\ budget = [max_depth |-> 0, max_llm_calls_per_turn |-> 0,
                 max_qdrant_queries_per_turn |-> 0]
    /\ settings = Snapshot(FALSE, <<>>, "player", LocaleEnUS)
    /\ resolver = "shipped"
    /\ ctx = Context("1", TranscriptGo, LocaleEnUS)

StoreNext == StoreEnsureCampaign \/ StoreApplyWrites \/ StoreRead

StoreSpec == StoreInit /\ [][StoreNext]_vars

\* ---------------------------------------------------------- specification
Next ==
    \/ HandleTurnStart
    \/ EnsureCampaign
    \/ EnsureCampaignCommit
    \/ EnsurePlayerProfile
    \/ RlmStepEnter
    \/ InterpretIntent
    \/ LlmClassify
    \/ StateRead
    \/ KnowledgeSearch
    \/ ResolveBegin
    \/ LlmDraft
    \/ LlmTranslate
    \/ Recurse
    \/ StepReturn
    \/ MergeFollow
    \/ AppendLog
    \/ ApplyWrites
    \/ FinishTurn
    \/ BgAppendNarration
    \/ BgScheduleEvent
    \/ BgFinish

Spec == Init /\ [][Next]_vars

\* ------------------------------------------- two concurrent invocations
\* A second handle_turn invocation runs on the same controller.  The event
\* loop runs one coroutine at a time and changes over only where the running
\* one awaits: `parked` holds what is private to the invocation that is not
\* running; the provider, the stores and the logger are shared.
Invocation ==
    [ctx |-> ctx, pc |-> pc, stack |-> stack, plan |-> plan, returned |-> returned,
     raised |-> raised, resolutions |-> resolutions, applyCalls |-> applyCalls, bg |-> bg,
     events |-> events]

FreshInvocation(c) ==
    [ctx |-> c, pc |-> "idle", stack |-> <<>>, plan |-> NoPlan, returned |-> NoPlan,
     raised |-> "", resolutions |-> <<>>, applyCalls |-> <<>>, bg |-> NoTask,
     events |-> <<>>]

\* The running invocation is not started, is at an await, or is over.
Suspended ==
    \/ pc \in {"idle", "ensure_campaign", "ensure_campaign_commit",
               "ensure_player_profile", "apply_writes",
               "returned", "raised"}
    \/ /\ pc = "rlm_step"
       /\ \/ Top.phase \in {"classify", "read", "draft", "translate"}
          \/ Top.phase = "search" /\ Top.searched < Len(RetrievalsToRun(Top))

\* The event loop resumes the other invocation.
Switch ==
    /\ parked.pc # "none"
    /\ Suspended
    /\ parked' = Invocation
    /\ ctx' = parked.ctx
    /\ pc' = parked.pc
    /\ stack' = parked.stack
    /\ plan' = parked.plan
    /\ returned' = parked.returned
    /\ raised' = parked.raised
    /\ resolutions' = parked.resolutions
    /\ applyCalls' = parked.applyCalls
    /\ bg' = parked.bg
    /\ events' = parked.events
    /\ UNCHANGED <<budget, settings, resolver, llmCalls, searchCalls, db, lastCall,
                   interaction>>

ConcInit ==
    /\ budget = [max_depth |-> MaxDepthBound, max_llm_calls_per_turn |-> MaxLlmBound,
                 max_qdrant_queries_per_turn |-> MaxQueryBound]
    /\ settings = Snapshot(TRUE, <<"core">>, "locale", LocaleFrFR)
    /\ resolver = "shipped"
    /\ ctx = Context("1", TranscriptGo, LocaleEnUS)
    /\ parked = FreshInvocation(Context("3", TranscriptAttack, LocaleFrFR))
    /\ pc = "idle"
    /\ stack = <<>>
    /\ plan = NoPlan
    /\ returned = NoPlan
    /\ raised = ""
    /\ llmCalls = <<>>
    /\ searchCalls = 0
    /\ applyCalls = <<>>
    /\ db = EmptyDb
    /\ events = <<>>
    /\ resolutions = <<>>
    /\ bg = NoTask
    /\ lastCall = NoCall
    /\ processor = NewProcessor
    /\ pipeline = NewPipeline
    /\ manager = NewManager(TRUE)
    /\ control = NewControl
    /\ lanes = NewLanes
    /\ speakers = NewSpeakers
    /\ stored = NewStore(DefaultSettings)

\* ------------------------------------------------ SettingsStore.update
\* SettingsStore.update replaces the stored settings while an invocation is
\* at an await; every later _settings() call returns the new ones.
SettingsUpdate ==
    /\ Suspended
    /\ pc \notin {"idle", "returned", "raised"}
    /\ \E s \in SettingsSnapshots : s # settings /\ settings' = s
    /\ UNCHANGED <<budget, resolver, ctx, aside, turn, db>>

UpdateNext == Next \/ SettingsUpdate

\* The turns of the largest budget, with the resolver that can recurse.
UpdateInit ==
    /\ Init
    /\ budget = [max_depth |-> MaxDepthBound, max_llm_calls_per_turn |-> MaxLlmBound,
                 max_qdrant_queries_per_turn |-> MaxQueryBound]
    /\ resolver = "forced"

UpdateSpec == UpdateInit /\ [][UpdateNext]_vars

\* The steps of an invocation with the resolver as shipped: it never reports
\* a follow-up and proposes no delayed event, so the step never calls itself
\* and the background task has no event to schedule.
ShippedNext ==
    \/ HandleTurnStart
    \/ EnsureCampaign
    \/ EnsureCampaignCommit
    \/ EnsurePlayerProfile
    \/ RlmStepEnter
    \/ InterpretIntent
    \/ LlmClassify
    \/ StateRead
    \/ KnowledgeSearch
    \/ ResolveBegin
    \/ LlmDraft
    \/ LlmTranslate
    \/ StepReturn
    \/ AppendLog
    \/ ApplyWrites
    \/ FinishTurn
    \/ BgAppendNarration
    \/ BgFinish

ConcNext == ShippedNext \/ Switch

ConcSpec == ConcInit /\ [][ConcNext]_vars

\* ------------------------------------------------- retrieval routing
\* Turns whose utterances carry the routing signals of _interpret_intent:
\* GM-advice and rules markers together, rules markers alone, two content
\* categories, a bare question, and none of them.
TranscriptGmSpell == <<"G","M"," ","s","p","e","l","l">>
TranscriptNpcTown == <<"t","h","e"," ","n","p","c"," ","i","n"," ","t","o","w","n">>
TranscriptWhy == <<"w","h","y","?">>
RoutingTranscripts ==
    {TranscriptGmSpell, TranscriptAttack, TranscriptNpcTown, TranscriptWhy, TranscriptGo}

RoutingContexts == {Context("5", t, LocaleEnUS) : t \in RoutingTranscripts}

RoutingInit ==
    /\ budget = [max_depth |-> MaxDepthBound, max_llm_calls_per_turn |-> MaxLlmBound,
                 max_qdrant_queries_per_turn |-> MaxQueryBound]
    /\ settings \in SettingsSnapshots
    /\ resolver = "shipped"
    /\ ctx \in RoutingContexts
    /\ pc = "idle"
    /\ stack = <<>>
    /\ plan = NoPlan
    /\ returned = NoPlan
    /\ raised = ""
    /\ llmCalls = <<>>
    /\ searchCalls = 0
    /\ applyCalls = <<>>
    /\ db = EmptyDb
    /\ events = <<>>
    /\ resolutions = <<>>
    /\ bg = NoTask
    /\ parked = NoTurn
    /\ lastCall = NoCall
    /\ processor = NewProcessor
    /\ pipeline = NewPipeline
    /\ manager = NewManager(TRUE)
    /\ control = NewControl
    /\ lanes = NewLanes
    /\ speakers = NewSpeakers
    /\ stored = NewStore(DefaultSettings)

RoutingSpec == RoutingInit /\ [][ShippedNext]_vars


\* ------------------------------------------- RLMProcessor.process_frame
\* The frames that reach the processor, one process_frame call at a time.
MaxFrames == 4

TextGo == <<"g","o">>
TextGoOn == <<"g","o"," ","o","n">>
TextHi == <<" ","h","i">>
TextBlank == <<" "," ">>
SpokenTexts == {TextGo, TextGoOn, TextHi}
FrameTexts == SpokenTexts \cup {TextBlank}

\* The player _resolve_player_id_from_speaker attributes a transcript to.
ResolvedPlayers == {"player1", "player2"}

Frame(kind, direction, text, player_id, finalized) ==
    [kind |-> kind, direction |-> direction, text |-> text, player_id |-> player_id,
     finalized |-> finalized]

\* process_frame is over: what it was called with, what the flush it ran (if
\* any) did, and the frames it pushed.
Processed(frame, p, flush, out) ==
    /\ processor' = p
    /\ pipeline' = [frames |-> pipeline.frames + 1,
                    calls |-> pipeline.calls + (IF flush.ctx # NoContext THEN 1 ELSE 0),
                    failed |-> pipeline.failed + (IF flush.result = "failed" THEN 1 ELSE 0),
                    last |-> [kind |-> frame.kind, direction |-> frame.direction,
                              text |-> frame.text, player_id |-> frame.player_id,
                              finalized |-> frame.finalized, result |-> flush.result,
                              ctx |-> flush.ctx, out |-> out]]
    /\ UNCHANGED <<config, parked, lastCall, turn, db, manager, control, stored, voice>>

\* What handle_turn may do in this process_frame call, when the call can
\* get as far as awaiting it.
OutcomesIf(asked) ==
    IF asked THEN HandleTurnOutcomes ELSE {[raises |-> TRUE, plan |-> NoPlan]}

\* Variant: a finalized transcript is flushed at once, speech going on or not.
FlushesAtOnceAnyFinal(p, finalized) == finalized

\* The guard of the flush that ends the handling of a TranscriptionFrame.
FlushesAtOnce(p, finalized) == finalized /\ ~p.vad_active

\* No flush was run.
NoFlush == [proc |-> processor, result |-> "none", flushed |-> FALSE,
            ctx |-> NoContext, out |-> <<>>]

FrameKinds == {"error", "interim", "vad_start", "vad_stop", "transcription", "other"}

\* A frame travelling upstream is passed on untouched.
ProcessUpstream ==
    /\ pipeline.frames < MaxFrames
    /\ \E kind \in FrameKinds :
          Processed(Frame(kind, "upstream",
                          IF kind \in {"interim", "transcription"} THEN TextGo ELSE <<>>,
                          "", kind = "transcription"),
                    processor, NoFlush, <<"frame">>)

\* ErrorFrame: reported to the client, not passed on.
ProcessErrorFrame ==
    /\ pipeline.frames < MaxFrames
    /\ Processed(Frame("error", "downstream", <<>>, "", FALSE), processor, NoFlush,
                 <<"error", "debug:error_frame">>)

\* InterimTranscriptionFrame: a non-blank text is merged into the pending turn.
ProcessInterim ==
    /\ pipeline.frames < MaxFrames
    /\ \E text \in FrameTexts, player \in ResolvedPlayers :
          Processed(Frame("interim", "downstream", text, player, FALSE),
                    IF Strip(text) # <<>>
                    THEN StagePendingTurn(processor, player, LocaleEnUS, Strip(text), FALSE)
                    ELSE processor,
                    NoFlush, <<"frame">>)

\* VADUserStartedSpeakingFrame
ProcessVadStart ==
    /\ pipeline.frames < MaxFrames
    /\ Processed(Frame("vad_start", "downstream", <<>>, "", FALSE),
                 [processor EXCEPT !.vad_active = TRUE], NoFlush, <<"frame">>)

\* VADUserStoppedSpeakingFrame: the pending turn is flushed.
ProcessVadStop ==
    /\ pipeline.frames < MaxFrames
    /\ \E outcome \in OutcomesIf(Strip(processor.pending_transcript_text) # <<>>) :
          LET flush == FlushPendingTurn([processor EXCEPT !.vad_active = FALSE], outcome)
          IN  Processed(Frame("vad_stop", "downstream", <<>>, "", FALSE), flush.proc, flush,
                        flush.out
                        \o (IF ~flush.flushed THEN <<"debug:turn_idle_on_vad_stop">> ELSE <<>>)
                        \o <<"frame">>)

\* TranscriptionFrame with a non-blank text: reported, passed on, merged into
\* the pending turn, and flushed at once when finalized while VAD is inactive.
ProcessTranscription ==
    /\ pipeline.frames < MaxFrames
    /\ \E text \in SpokenTexts, player \in ResolvedPlayers, finalized \in BOOLEAN,
          speaker_mapped \in BOOLEAN :
       \E outcome \in OutcomesIf(finalized) :
          LET staged == StagePendingTurn(processor, player, LocaleEnUS, text, finalized)
              flush == IF FlushesAtOnce(processor, finalized)
                       THEN FlushPendingTurn(staged, outcome)
                       ELSE [NoFlush EXCEPT !.proc = staged]
          IN  Processed(Frame("transcription", "downstream", text, player, finalized),
                        flush.proc, flush,
                        <<"transcript">>
                        \o (IF speaker_mapped THEN <<"speaker_map">> ELSE <<>>)
                        \o <<"frame", "debug:transcript_buffered">>
                        \o flush.out)

\* Any other frame, a TranscriptionFrame with a blank text included, is passed on.
ProcessOther ==
    /\ pipeline.frames < MaxFrames
    /\ \E kind \in {"other", "transcription"}, finalized \in BOOLEAN :
          Processed(Frame(kind, "downstream",
                          IF kind = "transcription" THEN TextBlank ELSE <<>>, "",
                          kind = "transcription" /\ finalized),
                    processor, NoFlush, <<"frame">>)

ProcessorInit ==
    /\ Init
    /\ budget = [max_depth |-> 0, max_llm_calls_per_turn |-> 0,
                 max_qdrant_queries_per_turn |-> 0]
    /\ settings = Snapshot(FALSE, <<>>, "player", LocaleEnUS)
    /\ resolver = "shipped"
    /\ ctx = Context("1", TranscriptGo, LocaleEnUS)

ProcessFrame ==
    \/ ProcessUpstream
    \/ ProcessErrorFrame
    \/ ProcessInterim
    \/ ProcessVadStart
    \/ ProcessVadStop
    \/ ProcessTranscription
    \/ ProcessOther

ProcessorSpec == ProcessorInit /\ [][ProcessFrame]_vars

\* ------------------------------------------- KnowledgeManager, its calls
\* Calls on one manager from the control processor and from the HTTP
\* handlers, all coroutines of one event loop: a call runs until it awaits
\* something that suspends it (a worker thread, the vector store, the
\* progress callback), and other calls run meanwhile.  The manager's lock is
\* never held across such an await.
MaxManagerCalls == 5

RawDocIds == {<<"A">>, <<" ", "a", " ">>, <<"?", "!">>}
DocIds == {SlugDocId(r) : r \in RawDocIds}

ChunkOneByte == <<"Q","Q","=","=">>
ChunkTwoBytes == <<"Q","U","I","=">>
ChunkBadPadding == <<"Q">>
ChunkTexts == {ChunkOneByte, ChunkTwoBytes, ChunkBadPadding}

\* The ids a caller can pass: those begin_upload returned, and 0 for any
\* text begin_upload never returned.
UnknownUploadId == 0
KnownUploadIds == {u \in UploadIds : manager.uploads[u].returned}

\* Was this id returned by begin_upload and not finished yet?
Unfinished(m, upload_id) ==
    upload_id \in UploadIds /\ m.uploads[upload_id].returned /\ m.finished[upload_id] = 0

ManagerStep(m) ==
    /\ manager' = m
    /\ UNCHANGED <<config, parked, lastCall, turn, db, processor, pipeline, control, stored,
                   voice>>

Called(m) == [m EXCEPT !.calls = @ + 1]

RemoveAt(seq, i) == SubSeq(seq, 1, i - 1) \o SubSeq(seq, i + 1, Len(seq))

ManagerBeginUpload ==
    /\ manager.calls < MaxManagerCalls
    /\ manager.issued < MaxUploads
    /\ \E raw \in RawDocIds, created \in BOOLEAN :
          ManagerStep(BeginUpload(Called(manager), raw, created))

\* upload_chunk as far as its await of the worker thread that appends.
ManagerUploadChunk ==
    /\ manager.calls < MaxManagerCalls
    /\ \E upload_id \in KnownUploadIds \cup {UnknownUploadId}, data_b64 \in ChunkTexts :
          LET m == Called(manager)
              pre == Unfinished(manager, upload_id)
              n == B64DecodedLen(data_b64)
          IN  IF ~LiveUpload(manager, upload_id)
              THEN ManagerStep([m EXCEPT !.last =
                        Ended("upload_chunk", FALSE, "unknown upload_id", <<>>,
                              upload_id, pre)])
              ELSE IF n = B64Invalid
              THEN ManagerStep([m EXCEPT !.last =
                        Ended("upload_chunk", FALSE, "binascii.Error",
                              manager.uploads[upload_id].doc_id, upload_id, pre)])
              ELSE ManagerStep([m EXCEPT !.appending =
                        Append(@, [upload |-> upload_id, n |-> n, pre |-> pre])])

\* The worker thread is done: upload_chunk counts the bytes and returns, or
\* the append failed and it raises.
ManagerChunkAppended ==
    \E i \in 1..Len(manager.appending), appended \in BOOLEAN :
        LET a == manager.appending[i]
            u == manager.uploads[a.upload]
            rest == [manager EXCEPT !.appending = RemoveAt(@, i)]
        IN  IF appended
            THEN ManagerStep([rest EXCEPT
                     !.uploads[a.upload].received_bytes = @ + a.n,
                     !.accepted[a.upload] = @ + a.n,
                     !.last = Ended("upload_chunk", TRUE, "", u.doc_id, a.upload, a.pre)])
            ELSE ManagerStep([rest EXCEPT
                     !.last = Ended("upload_chunk", FALSE, "OSError", u.doc_id,
                                    a.upload, a.pre)])

ManagerFinishUpload ==
    /\ manager.calls < MaxManagerCalls
    /\ \E upload_id \in KnownUploadIds \cup {UnknownUploadId} :
          LET m == Called(manager)
              pre == Unfinished(manager, upload_id)
          IN  IF ~LiveUpload(manager, upload_id)
              THEN ManagerStep([m EXCEPT !.last =
                        Ended("finish_upload", FALSE, "unknown upload_id", <<>>,
                              upload_id, pre)])
              ELSE ManagerStep([FinishUpload(m, upload_id) EXCEPT !.last =
                        Ended("finish_upload", TRUE, "",
                              manager.uploads[upload_id].doc_id, upload_id, pre)])

\* delete_doc: the vector store's delete_by_filter may raise before the
\* index is touched.
ManagerDeleteDoc ==
    /\ manager.calls < MaxManagerCalls
    /\ \E doc_id \in DocIds, deleted \in BOOLEAN :
          /\ deleted \/ manager.qdrant
          /\ LET m == Called(manager)
             IN  IF deleted
                 THEN ManagerStep([DeleteDoc(m, doc_id) EXCEPT
                          !.vectors = IF m.qdrant THEN @ \ {doc_id} ELSE @,
                          !.deleted = @ \cup {doc_id},
                          !.last = Ended("delete_doc", TRUE, "", doc_id, 0,
                                         HasDoc(manager.index, doc_id))])
                 ELSE ManagerStep([m EXCEPT !.last =
                          Ended("delete_doc", FALSE, "qdrant", doc_id, 0,
                                HasDoc(manager.index, doc_id))])

\* ---------------------------------------------- KnowledgeManager.ingest_doc
MaxIngests == 2

\* An ingest_doc call suspended at an await: `at` names the await, `known`
\* tells whether the document was in the index when the call was made.
Ingest(doc_id, at, known) == [doc_id |-> doc_id, at |-> at, known |-> known]

\* The except clause of ingest_doc up to its await of emit: the failure is
\* recorded in the index.
IngestFailed(m, i, error) ==
    [m EXCEPT !.index = SetDocStatus(@, m.ingests[i].doc_id, "error", error),
              !.ingests[i].at = "emit_error"]

\* ingest_doc from the call to its first await.
ManagerIngestDoc ==
    /\ manager.calls < MaxManagerCalls
    /\ Len(manager.ingests) < MaxIngests
    /\ \E doc_id \in DocIds, on_disk \in BOOLEAN :
          LET m == [Called(manager) EXCEPT !.deleted = @ \ {doc_id}]
              known == HasDoc(manager.index, doc_id)
              i == Len(manager.ingests) + 1
              begun == [m EXCEPT !.ingests = Append(@, Ingest(doc_id, "emit_starting", known))]
          IN  IF ~manager.qdrant
              THEN ManagerStep([m EXCEPT !.last =
                        Ended("ingest_doc", FALSE, "Knowledge is not enabled", doc_id, 0, known)])
              ELSE IF ~known
              THEN ManagerStep(IngestFailed(begun, i, "Unknown doc_id"))
              ELSE IF ~on_disk
              THEN ManagerStep(IngestFailed(begun, i, "PDF file not found"))
              ELSE ManagerStep(begun)

\* What ingest_doc awaited is over: it returned, it raised an Exception, or
\* the task running ingest_doc was cancelled while it waited (asyncio.run
\* cancels the tasks that are left when the program's main coroutine ends),
\* and CancelledError is not an Exception: no except clause of ingest_doc
\* runs.
AwaitOutcomes == {"returned", "raised", "cancelled"}

ManagerIngestStep ==
    \E i \in 1..Len(manager.ingests), outcome \in AwaitOutcomes :
        LET t == manager.ingests[i]
            ended(ok, error) ==
                [manager EXCEPT !.ingests = RemoveAt(@, i),
                                !.last = Ended("ingest_doc", ok, error, t.doc_id, 0, t.known)]
        IN  CASE outcome = "cancelled" -> ManagerStep(ended(FALSE, "CancelledError"))
              [] t.at = "emit_error" -> ManagerStep(ended(FALSE, "raised"))
              [] outcome = "raised" -> ManagerStep(IngestFailed(manager, i, "raised"))
              [] t.at = "emit_starting" ->
                    ManagerStep([manager EXCEPT
                        !.index = SetDocStatus(@, t.doc_id, "ingesting", ""),
                        !.ingests[i].at = "ingest_pdf"])
              [] t.at = "ingest_pdf" ->
                    ManagerStep([manager EXCEPT !.ingests[i].at = "upsert"])
              [] t.at = "upsert" ->
                    ManagerStep([manager EXCEPT
                        !.vectors = @ \cup {t.doc_id},
                        !.index = SetDocStatus(@, t.doc_id, "ready", ""),
                        !.ingests[i].at = "emit_ready"])
              [] OTHER -> ManagerStep(ended(TRUE, ""))

ManagerInit ==
    /\ budget = [max_depth |-> 0, max_llm_calls_per_turn |-> 0,
                 max_qdrant_queries_per_turn |-> 0]
    /\ settings = Snapshot(FALSE, <<>>, "player", LocaleEnUS)
    /\ resolver = "shipped"
    /\ ctx = Context("1", TranscriptGo, LocaleEnUS)
    /\ pc = "idle"
    /\ stack = <<>>
    /\ plan = NoPlan
    /\ returned = NoPlan
    /\ raised = ""
    /\ llmCalls = <<>>
    /\ searchCalls = 0
    /\ applyCalls = <<>>
    /\ db = EmptyDb
    /\ events = <<>>
    /\ resolutions = <<>>
    /\ bg = NoTask
    /\ parked = NoTurn
    /\ lastCall = NoCall
    /\ processor = NewProcessor
    /\ pipeline = NewPipeline
    /\ manager \in {NewManager(qdrant) : qdrant \in BOOLEAN}
    /\ control = NewControl
    /\ lanes = NewLanes
    /\ speakers = NewSpeakers
    /\ stored = NewStore(DefaultSettings)

ManagerNext ==
    \/ ManagerBeginUpload
    \/ ManagerUploadChunk
    \/ ManagerChunkAppended
    \/ ManagerFinishUpload
    \/ ManagerDeleteDoc
    \/ ManagerIngestDoc
    \/ ManagerIngestStep

ManagerSpec == ManagerInit /\ [][ManagerNext]_vars

\* ------------------------------------- ControlProcessor.process_frame
MaxControlFrames == 3

ControlStep(c) ==
    /\ control' = c
    /\ UNCHANGED <<config, parked, lastCall, turn, db, processor, pipeline, manager, stored,
                   voice>>

Arrived(c) == [c EXCEPT !.frames = @ + 1]

\* `async with self._lock` gets the lock at once when nobody holds it.
LockIsFree(c) == c.lock = 0

\* A frame that does not travel downstream is pushed on in its direction,
\* a client message included.
ControlUpstream ==
    /\ control.frames < MaxControlFrames
    /\ \E kind \in {"client_message", "other"} :
          ControlStep([Arrived(control) EXCEPT
              !.passed = Append(@, [kind |-> kind, direction |-> "upstream"])])

\* A downstream frame that is no client message is pushed downstream; the
\* speech bookkeeping may _send a notice first.
ControlOther ==
    /\ control.frames < MaxControlFrames
    /\ \E noticed \in BOOLEAN :
          ControlStep([Arrived(control) EXCEPT
              !.passed = @ \o (IF noticed THEN <<[kind |-> "notice", direction |-> "downstream"]>>
                               ELSE <<>>)
                           \o <<[kind |-> "other", direction |-> "downstream"]>>])

\* process_frame is given a downstream GMClientMessageFrame: it handles it
\* when it can take the lock, and waits for the lock otherwise.
ControlMessage ==
    /\ control.frames < MaxControlFrames
    /\ \E type \in MessageTypes, req_id \in ReqIds :
          LET i == Len(control.msgs) + 1
          IN  IF LockIsFree(control)
              THEN ControlStep([Arrived(control) EXCEPT
                       !.lock = i,
                       !.msgs = Append(@, Message(type, req_id, "handling"))])
              ELSE ControlStep([Arrived(control) EXCEPT
                       !.msgs = Append(@, Message(type, req_id, "waiting"))])

\* A waiting process_frame call gets the lock.
ControlAcquire ==
    \E i \in 1..Len(control.msgs) :
        /\ control.msgs[i].at = "waiting"
        /\ LockIsFree(control)
        /\ ControlStep([control EXCEPT !.lock = i, !.msgs[i].at = "handling"])

\* prompt_generate announces itself with _send once its checks passed and
\* then awaits the model.
ControlAnnounce ==
    \E i \in 1..Len(control.msgs) :
        /\ control.msgs[i].at = "handling"
        /\ control.msgs[i].type = "prompt_generate"
        /\ ControlStep([control EXCEPT
               !.msgs[i].at = "announced",
               !.msgs[i].sends = Append(@, Send("prompt_generate_started"))])

\* Variant: a branch that raises ends without a reply.
HandledErrorsSilent(m, ok) ==
    IF ok /\ m.type \in KnownTypes
    THEN [m EXCEPT !.at = "done",
                   !.replies = Append(@, Reply(m.req_id, ResultType(m.type))),
                   !.task = IF m.type = "kb_ingest_start" THEN "running" ELSE "none"]
    ELSE [m EXCEPT !.at = "done", !.raised = TRUE]

\* _handle_message from where the message is to its end.  `ok`: nothing
\* raised in the branch of the message's type.  An announced
\* prompt_generate replies with its result either way: it falls back to a
\* template when the model fails.  A type without a branch raises.
Handled(m, ok) ==
    IF m.at = "announced" \/ (ok /\ m.type \in KnownTypes)
    THEN [m EXCEPT !.at = "done",
                   !.replies = Append(@, Reply(m.req_id, ResultType(m.type))),
                   !.task = IF m.type = "kb_ingest_start" THEN "running" ELSE "none"]
    ELSE [m EXCEPT !.at = "done", !.raised = TRUE,
                   !.replies = Append(@, Reply(m.req_id, "error"))]

\* The handling of the message that holds the lock ends: the lock is
\* released and process_frame returns without pushing the frame.
ControlHandled ==
    \E i \in 1..Len(control.msgs), ok \in BOOLEAN :
        /\ control.msgs[i].at \in {"handling", "announced"}
        /\ ControlStep([control EXCEPT !.lock = 0,
                                       !.msgs[i] = Handled(control.msgs[i], ok)])

\* The detached run_ingest task of a kb_ingest_start ends; when ingest_doc
\* raised it reports with _send, outside any request.
ControlIngestTaskEnds ==
    \E i \in 1..Len(control.msgs), ok \in BOOLEAN :
        /\ control.msgs[i].task = "running"
        /\ ControlStep([control EXCEPT
               !.msgs[i].task = "ended",
               !.msgs[i].sends = IF ok THEN @ ELSE Append(@, Send("error"))])

ControlInit == ProcessorInit

ControlNext ==
    \/ ControlUpstream
    \/ ControlOther
    \/ ControlMessage
    \/ ControlAcquire
    \/ ControlAnnounce
    \/ ControlHandled
    \/ ControlIngestTaskEnds

ControlSpec == ControlInit /\ [][ControlNext]_vars

\* ------------------------------------------------- SettingsStore.update
MaxUpdates == 3

\* The controller and the other components, idle.
AtRest ==
    /\ budget = [max_depth |-> 0, max_llm_calls_per_turn |-> 0,
                 max_qdrant_queries_per_turn |-> 0]
    /\ settings = Snapshot(FALSE, <<>>, "player", LocaleEnUS)
    /\ resolver = "shipped"
    /\ ctx = Context("1", TranscriptGo, LocaleEnUS)
    /\ pc = "idle"
    /\ stack = <<>>
    /\ plan = NoPlan
    /\ returned = NoPlan
    /\ raised = ""
    /\ llmCalls = <<>>
    /\ searchCalls = 0
    /\ applyCalls = <<>>
    /\ db = EmptyDb
    /\ events = <<>>
    /\ resolutions = <<>>
    /\ bg = NoTask
    /\ parked = NoTurn
    /\ lastCall = NoCall
    /\ processor = NewProcessor
    /\ pipeline = NewPipeline
    /\ manager = NewManager(TRUE)
    /\ control = NewControl
    /\ lanes = NewLanes
    /\ speakers = NewSpeakers

IdBob == <<"B","o","b">>
IdBobLower == <<"b","o","b">>
IdBlank == <<" ">>
IdZed == <<"z","e","d","!">>
\* Nine profiles, one more than are kept.
NineProfiles == [i \in 1..(MaxProfiles + 1) |-> <<"p", Digits[i + 1]>>]
ProfileLists ==
    {<<>>, <<IdBob, IdBobLower>>, <<IdBlank, IdZed>>, <<IdPlayer1, IdBob>>, NineProfiles}
RawIds == {<<>>, IdBob, IdZed}
RawModes == {<<"L","o","c","a","l","e"," ">>, <<"d","e">>, <<>>}

\* The patches taken: every choice of keys, every value of the sets above.
OneKey(k, values) == {<<>>} \cup {[x \in {k} |-> v] : v \in values}
Patches ==
    {a @@ b @@ c @@ d :
        a \in OneKey("player_profiles", ProfileLists),
        b \in OneKey("active_player_id", RawIds),
        c \in OneKey("player_id", RawIds),
        d \in OneKey("response_language_mode", RawModes)}

\* What _load_or_init may find: the defaults, environment variables that
\* name another player, a settings file that a patch describes.
LoadedSettings == {DeepMerge(DefaultSettings, patch) : patch \in Patches}

\* SettingsStore.update(patch): the merged settings are validated,
\* normalized and stored; when validation fails the call raises and the
\* stored settings stay.
SettingsStoreUpdate ==
    /\ stored.updates < MaxUpdates
    /\ \E patch \in Patches, valid \in BOOLEAN :
          /\ stored' = IF valid
                       THEN [stored EXCEPT !.settings = Updated(@, patch), !.updates = @ + 1]
                       ELSE [stored EXCEPT !.updates = @ + 1, !.raised = @ + 1]
          /\ UNCHANGED <<config, parked, lastCall, turn, db, processor, pipeline, manager,
                         control, voice>>

SettingsInit ==
    /\ AtRest
    /\ stored \in {NewStore(raw) : raw \in LoadedSettings}

SettingsSpec == SettingsInit /\ [][SettingsStoreUpdate]_vars


\* ------------------------------------------------------------ properties
Logged(kind) == \E i \in 1..Len(events) : events[i] = kind

CountKind(writes, kind) == Cardinality({i \in 1..Len(writes) : writes[i].kind = kind})

\* The depths recorded in a debug map, outermost first.
RECURSIVE DebugChain(_)
DebugChain(d) ==
    IF "followup" \in DOMAIN d THEN <<d.depth>> \o DebugChain(d.followup)
    ELSE <<d.depth>>

RECURSIVE HasDepthReason(_)
HasDepthReason(d) ==
    \/ "reason" \in DOMAIN d /\ d.reason = "max_depth_exceeded"
    \/ "followup" \in DOMAIN d /\ HasDepthReason(d.followup)

\* What the levels of a turn produced, level by level.
RECURSIVE AllWrites(_)
AllWrites(rs) == IF rs = <<>> THEN <<>> ELSE Head(rs).writes \o AllWrites(Tail(rs))

RECURSIVE AllEvents(_)
AllEvents(rs) == IF rs = <<>> THEN <<>> ELSE Head(rs).delayed_events \o AllEvents(Tail(rs))

RECURSIVE AllFollowups(_)
AllFollowups(rs) ==
    IF rs = <<>> THEN <<>>
    ELSE Head(rs).followups \o
         (IF Tail(rs) = <<>> THEN <<>>
          ELSE <<Head(Tail(rs)).immediate_text>> \o AllFollowups(Tail(rs)))

IsShort(c) == Len(Lower(Strip(c.transcript_text))) < ShortTranscriptLen

\* C1: the provider never sees more completion calls in one handle_turn than
\* Budget.max_llm_calls_per_turn, classification, narration and translation
\* of every recursion level counted together.
LlmBudgetRespected == Len(llmCalls) <= budget.max_llm_calls_per_turn

\* C1 witness: a turn that recursed, spent the whole budget of two calls at
\* depth 0 and got the fallback narration at depth 1.
LlmBudgetSpent ==
    /\ pc = "returned"
    /\ budget.max_llm_calls_per_turn = 2
    /\ Len(llmCalls) = 2
    /\ Len(resolutions) = 2
    /\ resolutions[2].immediate_text = FallbackText

\* C2: a plan is returned only after handle_turn called state.apply_writes
\* exactly once, with the complete writes list of that plan (the writes of
\* every recursion level and the log write), after all levels had returned,
\* and the call committed; when an exception escapes, no plan is returned.
CommitBeforeReturn ==
    /\ Len(applyCalls) <= 1
    /\ applyCalls # <<>> => stack = <<>> /\ Len(applyCalls[1]) = Len(AllWrites(resolutions)) + 1
    /\ returned # NoPlan =>
          /\ applyCalls = <<returned.writes>>
          /\ Len(db.interaction_log) + Len(db.rows) = Len(returned.writes)
          /\ db.interaction_log =
                <<[campaign_id |-> ctx.campaign_id,
                   entry |-> returned.writes[Len(returned.writes)].params.entry]>>
    /\ raised # "" => returned = NoPlan /\ bg.pc = "none"

\* C2 witness: a returned plan with the writes of two levels and the log write.
CommittedTwoLevels ==
    /\ pc = "returned"
    /\ Len(resolutions) = 2
    /\ Len(returned.writes) = 3
    /\ Len(db.rows) = 2

\* C3: the writes of a returned plan hold exactly one append_log entry, and
\* its entry carries the turn_id of the context.
ExactlyOneLogWrite ==
    pc = "returned" =>
        /\ CountKind(returned.writes, "append_log") = 1
        /\ \A i \in 1..Len(returned.writes) :
              returned.writes[i].kind = "append_log" =>
                  returned.writes[i].params.entry.turn_id = ctx.turn_id

\* C3 witness: a returned plan of a turn that recursed.
LogWriteAfterRecursion ==
    /\ pc = "returned"
    /\ Len(resolutions) = 2
    /\ returned.followups # <<>>
    /\ CountKind(returned.writes, "append_log") = 1

\* C4: the knowledge store never sees more searches in one handle_turn than
\* Budget.max_qdrant_queries_per_turn, all recursion levels counted together.
RetrievalBudgetRespected == searchCalls <= budget.max_qdrant_queries_per_turn

\* C5: when the last step allowed by max_depth still needs a follow-up, the
\* returned plan carries the fixed degraded narration and the reason
\* max_depth_exceeded (as its own immediate_text and debug.reason when
\* max_depth = 0), and the max_depth_exceeded error event was logged.
DepthExhaustionDegrades ==
    (/\ pc = "returned"
     /\ Len(resolutions) = budget.max_depth + 1
     /\ resolutions[Len(resolutions)].needs_followup)
    => /\ Logged("error:max_depth_exceeded")
       /\ HasDepthReason(returned.debug)
       /\ \/ returned.immediate_text = DegradedText
          \/ \E i \in 1..Len(returned.followups) : returned.followups[i] = DegradedText
       /\ budget.max_depth = 0 =>
             /\ returned.immediate_text = DegradedText
             /\ "reason" \in DOMAIN returned.debug

\* C6: no step runs at a depth above max_depth, at most max_depth + 1 steps
\* run per turn, and every depth in the debug map of the returned plan, the
\* nested follow-ups included, is at most max_depth.
DepthWithinBudget ==
    /\ \A i \in 1..Len(stack) : stack[i].depth = i - 1 /\ stack[i].depth <= budget.max_depth
    /\ Len(resolutions) <= budget.max_depth + 1
    /\ pc = "returned" =>
          /\ Len(DebugChain(returned.debug)) <= budget.max_depth + 1
          /\ \A i \in 1..Len(DebugChain(returned.debug)) :
                DebugChain(returned.debug)[i] <= budget.max_depth

\* C6 witness: a returned plan whose innermost debug map is at max_depth >= 1.
DeepestLevelReached ==
    /\ pc = "returned"
    /\ budget.max_depth >= 1
    /\ Len(DebugChain(returned.debug)) = budget.max_depth + 1
    /\ DebugChain(returned.debug)[budget.max_depth + 1] = budget.max_depth

\* C7: with max_llm_calls_per_turn = 0 no completion call is made and the
\* plan's immediate_text is the fallback narration; and a resolver entered
\* with the count at or above the ceiling makes no call and returns the
\* fallback narration with the count unchanged.
FallbackWhenExhausted ==
    /\ budget.max_llm_calls_per_turn = 0 =>
          /\ llmCalls = <<>>
          /\ pc = "returned" => returned.immediate_text = FallbackText
    /\ \A i \in 1..Len(stack) :
          LET f == stack[i]
          IN  /\ f.phase \in {"draft", "translate"} =>
                    f.resolve_llm_calls < budget.max_llm_calls_per_turn
              /\ (/\ f.phase \in {"resolved", "follow", "ret"}
                  /\ f.resolve_llm_calls >= budget.max_llm_calls_per_turn) =>
                    /\ f.resolution.immediate_text = FallbackText
                    /\ f.resolution.llm_calls_used = f.resolve_llm_calls
    /\ \A i \in 1..Len(resolutions) :
          resolutions[i].immediate_text # FallbackText =>
              /\ resolutions[i].llm_calls_used >= 1
              /\ Len(llmCalls) >= 1

\* C7 witness: a short transcript answered with the fallback narration under
\* a ceiling of zero calls.
FallbackForShortTranscript ==
    /\ pc = "returned"
    /\ budget.max_llm_calls_per_turn = 0
    /\ IsShort(ctx)
    /\ returned.immediate_text = FallbackText

\* C8: the returned plan keeps the immediate_text of depth 0; its followups
\* are, level by level, the level's followups and then the next level's
\* immediate_text; its writes and delayed events are those of all levels in
\* depth order, the writes followed by the log write.
MergeKeepsEverything ==
    pc = "returned" =>
        /\ returned.immediate_text = resolutions[1].immediate_text
        /\ returned.followups = AllFollowups(resolutions)
        /\ SubSeq(returned.writes, 1, Len(returned.writes) - 1) = AllWrites(resolutions)
        /\ returned.delayed_events = AllEvents(resolutions)

\* C8 witness: a returned plan merged from two levels that each proposed a
\* follow-up, a write and a delayed event.
MergedTwoLevels ==
    /\ pc = "returned"
    /\ Len(resolutions) = 2
    /\ Len(returned.followups) = 3
    /\ Len(returned.delayed_events) = 2
    /\ returned.writes[1] # returned.writes[2]

\* C9: the background task exists only once the writes are committed, and
\* handle_turn returns with the task created and none of its work done.
BackgroundNeverBlocks ==
    /\ [](bg.pc # "none" =>
            /\ applyCalls # <<>>
            /\ Len(db.interaction_log) = 1
            /\ returned # NoPlan)
    /\ [][(pc # "returned" /\ pc' = "returned") =>
            /\ bg'.pc = "created"
            /\ ~Logged("narration")'
            /\ db'.delayed_events = <<>>]_vars

\* C9 witness: the plan is returned while the task, with events to schedule,
\* has not started.
ReturnedBeforeBackground ==
    /\ pc = "returned"
    /\ returned # NoPlan
    /\ bg.pc = "created"
    /\ bg.plan.delayed_events # <<>>
    /\ ~Logged("narration")

BackgroundFailed ==
    /\ bg.pc = "done"
    /\ \/ ~Logged("narration")
       \/ Len(db.delayed_events) < Len(bg.plan.delayed_events)

\* C10: a step of the background task changes neither the returned plan, nor
\* the outcome of handle_turn, nor the committed writes; a failure of its
\* work ends the task with background_post_turn_failed logged as an error.
BackgroundFailureContained ==
    /\ [][(bg.pc # "none" /\ bg' # bg) =>
            /\ returned' = returned
            /\ pc' = pc /\ raised' = raised
            /\ applyCalls' = applyCalls
            /\ db'.interaction_log = db.interaction_log
            /\ db'.rows = db.rows]_vars
    /\ [](BackgroundFailed =>
            /\ Logged("error:background_post_turn_failed")
            /\ pc = "returned" /\ raised = "")

\* C10 witness: the task failed on its second delayed event, after the
\* first was scheduled.
BackgroundFailedMidway ==
    /\ pc = "returned"
    /\ BackgroundFailed
    /\ Len(bg.plan.delayed_events) = 2
    /\ Len(db.delayed_events) = 1
    /\ Logged("error:background_post_turn_failed")

\* C11: a failure of ensure_player_profile, state.read, knowledge.search or of
\* the background work never escapes handle_turn (the turn still returns a
\* plan); only a failed commit or a failed completion does.
NamedFailuresDoNotEscape ==
    raised \notin {"ensure_player_profile", "state.read", "knowledge.search",
                   "background_post_turn"}

\* C12: whether ensure_player_profile returns or raises, handle_turn goes on
\* to the depth-0 step with nothing changed but the players table, and a
\* turn whose profile sync failed still appends the log write, commits the
\* writes and returns the plan.
ProfileSyncBestEffort ==
    /\ [][pc = "ensure_player_profile" =>
            /\ pc' = "rlm_step"
            /\ raised' = ""
            /\ stack' = <<NewFrame(0, 0)>>
            /\ [db' EXCEPT !.players = {}] = [db EXCEPT !.players = {}]
            /\ UNCHANGED <<plan, returned, llmCalls, searchCalls, applyCalls, events,
                           resolutions, bg>>]_vars
    /\ []((pc = "returned" /\ db.players = {}) =>
            /\ returned # NoPlan
            /\ CountKind(returned.writes, "append_log") = 1
            /\ applyCalls = <<returned.writes>>
            /\ Len(db.interaction_log) = 1)

\* C12 witness: a turn whose profile sync failed returned its plan, with the
\* log entry committed.
ProfileSyncFailedTurnReturned ==
    /\ pc = "returned"
    /\ db.players = {}
    /\ returned # NoPlan
    /\ Len(db.interaction_log) = 1
    /\ bg.pc = "created"

\* The entries logged for a campaign, in the order they were appended.
CampaignEntries(d, id) ==
    LET mine == SelectSeq(d.interaction_log, LAMBDA r : r.campaign_id = id)
    IN  [i \in 1..Len(mine) |-> mine[i].entry]

AppendedEntries(writes) ==
    LET logs == SelectSeq(writes, LAMBDA w : w.kind = "append_log")
    IN  [i \in 1..Len(logs) |-> logs[i].params.entry]

\* C13: there is never more than one campaign row per id; an ensure_campaign
\* call returns, leaves exactly one row for its id, leaves the whole database
\* as it was when the row existed already, and a campaign_snapshot read then
\* returns that row.
EnsureCampaignIdempotent ==
    /\ \A id \in CampaignIds : Len(CampaignRows(db, id)) <= 1
    /\ lastCall.op = "ensure_campaign" =>
          LET id == lastCall.ctx.campaign_id
          IN  /\ lastCall.ok
              /\ Len(CampaignRows(db, id)) = 1
              /\ CampaignRows(lastCall.before, id) # <<>> => db = lastCall.before
              /\ Read(db, lastCall.ctx, <<SnapshotRead>>).campaign = CampaignRows(db, id)[1]
              /\ Read(db, lastCall.ctx, <<SnapshotRead>>).campaign.id = id

\* C13 witness: a later ensure_campaign call, made with another name, left
\* the row of the first call as it was.
EnsuredTwice ==
    /\ lastCall.op = "ensure_campaign"
    /\ lastCall.name = <<"Moria">>
    /\ CampaignRows(lastCall.before, lastCall.ctx.campaign_id) # <<>>
    /\ CampaignRows(db, lastCall.ctx.campaign_id)[1].name =
          DefaultCampaignName(lastCall.ctx.campaign_id)

ApplyWritesAtomic ==
    lastCall.op = "apply_writes" =>
        LET ws == lastCall.writes
            bad == \E i \in 1..Len(ws) : ws[i] = BadLogWrite
            dup == /\ \E i \in 1..Len(ws) : ws[i] = InsertWrite
                   /\ \E j \in 1..Len(lastCall.before.rows) :
                         IsRow(lastCall.before.rows[j], InsertWrite.params.model,
                               InsertWrite.params.obj.id)
            inserts == Cardinality({i \in 1..Len(ws) : ws[i] = InsertWrite})
            deletes == IF \E i \in 1..Len(ws) : ws[i] = DeleteWrite
                       THEN Cardinality({j \in 1..Len(lastCall.before.rows) :
                                IsRow(lastCall.before.rows[j], DeleteWrite.params.model,
                                      DeleteWrite.params.id)})
                       ELSE 0
        IN  /\ lastCall.ok = ~(bad \/ dup)
            /\ ~lastCall.ok => db = lastCall.before
            /\ lastCall.ok =>
                  /\ CampaignEntries(db, lastCall.ctx.campaign_id) =
                        CampaignEntries(lastCall.before, lastCall.ctx.campaign_id)
                        \o AppendedEntries(ws)
                  /\ Len(db.rows) = Len(lastCall.before.rows) + inserts - deletes
                  /\ db.campaigns = lastCall.before.campaigns

\* C15 witness: a call whose second write raised left nothing of its first
\* write in a database that already held an entry.
RolledBackAfterFirstWrite ==
    /\ lastCall.op = "apply_writes"
    /\ ~lastCall.ok
    /\ lastCall.writes = <<LogWrite(EntryTwo), BadLogWrite>>
    /\ db.interaction_log # <<>>
    /\ db = lastCall.before

\* A list naming an unknown model committed its log write and no row.
UnknownModelSkipped ==
    /\ lastCall.op = "apply_writes"
    /\ lastCall.ok
    /\ lastCall.writes = <<UnknownModelWrite, LogWrite(EntryTwo)>>
    /\ Len(db.rows) = Len(lastCall.before.rows)

\* The completion calls the provider received from the invocation of a turn.
CallsOf(t) == Cardinality({i \in 1..Len(llmCalls) : llmCalls[i].turn = t})

\* The innermost step of an invocation, while it has not computed its plan.
Counting(st) ==
    /\ st # <<>>
    /\ st[Len(st)].phase \in {"enter", "interpret", "classify", "read", "search",
                               "draft", "translate", "resolved"}

\* C16: with two invocations interleaved at their awaits, the provider gets
\* at most max_llm_calls_per_turn calls from each; the count a running step
\* holds is the number of calls of its own invocation, whatever the other
\* one has made; and the depths of each invocation's steps are its own.
PrivateCounters ==
    /\ CallsOf(ctx.turn_id) <= budget.max_llm_calls_per_turn
    /\ Counting(stack) => Top.llm_calls = CallsOf(ctx.turn_id)
    /\ \A i \in 1..Len(stack) : stack[i].depth = i - 1
    /\ parked.pc # "none" =>
          /\ CallsOf(parked.ctx.turn_id) <= budget.max_llm_calls_per_turn
          /\ Counting(parked.stack) =>
                parked.stack[Len(parked.stack)].llm_calls = CallsOf(parked.ctx.turn_id)
          /\ \A i \in 1..Len(parked.stack) : parked.stack[i].depth = i - 1
          /\ Len(llmCalls) = CallsOf(ctx.turn_id) + CallsOf(parked.ctx.turn_id)

\* C16 witness: both invocations returned, each after as many calls as the
\* ceiling allows, the calls of the one made between those of the other.
BothSpentFullBudget ==
    /\ pc = "returned" /\ parked.pc = "returned"
    /\ budget.max_llm_calls_per_turn >= 2
    /\ CallsOf(ctx.turn_id) = budget.max_llm_calls_per_turn
    /\ CallsOf(parked.ctx.turn_id) = budget.max_llm_calls_per_turn
    /\ llmCalls[1].turn # llmCalls[2].turn
    /\ returned.immediate_text # FallbackText
    /\ parked.returned.immediate_text # FallbackText

\* The narration calls of the step at a depth of this turn.
ResolveCalls(depth) ==
    SelectSeq(llmCalls, LAMBDA c : c.phase = "resolve" /\ c.depth = depth)

\* C17: every stage of a turn works on one settings snapshot: the settings
\* _resolve used in a step are those the step read on entry and those of the
\* depth-0 step, and the language mode reported in the debug map of the
\* returned plan is the one the narration prompt was built with.
OneSnapshotPerTurn ==
    /\ \A i \in 1..Len(stack) :
          /\ stack[i].settings = stack[1].settings
          /\ stack[i].phase \in {"draft", "translate", "resolved", "follow"} =>
                stack[i].resolve_settings = stack[i].settings
    /\ (pc = "returned" /\ ResolveCalls(0) # <<>>) =>
          (returned.debug.response_language_mode = "locale"
             <=> ResolveCalls(0)[1].system.language_policy.clause = "reply_only_in_locale")

OrdinaryDebugKeys ==
    {"depth", "knowledge_enabled", "retrieval_queries", "knowledge_hits",
     "knowledge_sources", "response_language_mode", "response_language_tag", "followup"}

\* C18: the debug map of a returned plan records an exhausted budget: its
\* retrieval_queries is at most the number of searches executed, and when
\* the depth-0 narration is the fallback substituted for want of budget the
\* map holds an entry that says so.
ExhaustionRecordedInDebug ==
    pc = "returned" =>
        /\ returned.debug.retrieval_queries <= searchCalls
        /\ (/\ resolutions[1].immediate_text = FallbackText
            /\ resolutions[1].llm_calls_used >= budget.max_llm_calls_per_turn)
           => DOMAIN returned.debug \ OrdinaryDebugKeys # {}

CallsAt(phase, depth) ==
    Cardinality({i \in 1..Len(llmCalls) :
                    llmCalls[i].phase = phase /\ llmCalls[i].depth = depth})

\* C19: a step issues the classification call exactly when the stripped
\* transcript has fewer than 12 characters and its count is below the
\* ceiling; the call is made at most once per step and adds one to the
\* count; otherwise no call is made, the count stays, and the intent is
\* "action" when the lower-cased text holds an action marker, else
\* "question" -- "action" for "I attack the goblin with my sword".
ClassifyOnlyShortAndBudgeted ==
    /\ [](\A d \in 0..budget.max_depth : CallsAt("intent_classify", d) <= 1)
    /\ []((CallsAt("intent_classify", 0) > 0) =>
            Len(Strip(ctx.transcript_text)) < ShortTranscriptLen)
    /\ [][(InStep /\ Top.phase = "interpret") =>
            /\ llmCalls' = llmCalls
            /\ Top'.llm_calls = Top.llm_calls
            /\ IF /\ Len(Strip(ctx.transcript_text)) < ShortTranscriptLen
                  /\ Top.llm_calls < budget.max_llm_calls_per_turn
               THEN Top'.phase = "classify"
               ELSE /\ Top'.phase = "read"
                    /\ Top'.kind =
                          IF AnyIn(Lower(Strip(ctx.transcript_text)), ActionMarkers)
                          THEN <<"action">> ELSE <<"question">>
                    /\ ctx.transcript_text = TranscriptAttack => Top'.kind = <<"action">>]_vars
    /\ [][(InStep /\ Top.phase = "classify") =>
            /\ Len(llmCalls') = Len(llmCalls) + 1
            /\ llmCalls'[Len(llmCalls')].phase = "intent_classify"
            /\ pc' = "rlm_step" =>
                  /\ Top'.llm_calls = Top.llm_calls + 1
                  /\ Top'.phase = "read"]_vars

\* C19 witness: with budget left, the step on "I attack the goblin with my
\* sword" took the heuristic label "action" without a completion call.
HeuristicActionNoCall ==
    /\ InStep
    /\ Top.phase = "read"
    /\ ctx.transcript_text = TranscriptAttack
    /\ budget.max_llm_calls_per_turn >= 1
    /\ Top.kind = <<"action">>
    /\ llmCalls = <<>>

\* C20: a resolver step issues the translation call at most once, and only
\* after a narration call of the same step, for a target whose base tag is
\* neither empty nor "en", a draft that looks English and a count below the
\* ceiling; the call adds one to the count, and the narration after it is
\* the translation when that is non-empty, else the draft.
TranslationOnlyWhenNeeded ==
    /\ [](\A d \in 0..budget.max_depth :
            /\ CallsAt("resolve_translate", d) <= 1
            /\ CallsAt("resolve_translate", d) <= CallsAt("resolve", d))
    /\ []((InStep /\ Top.phase = "translate") =>
            /\ LangBase(Top.target_lang) # <<>>
            /\ LangBase(Top.target_lang) # <<"e", "n">>
            /\ LooksEnglishish(Top.immediate)
            /\ Top.llm_calls < budget.max_llm_calls_per_turn
            /\ CallsAt("resolve", Top.depth) = 1)
    /\ [][(InStep /\ Top.phase = "draft" /\ pc' = "rlm_step") =>
            (Top'.phase = "translate" <=>
                /\ LangBase(Top.target_lang) \notin {<<>>, <<"e", "n">>}
                /\ LooksEnglishish(Top'.immediate)
                /\ Top.llm_calls + 1 < budget.max_llm_calls_per_turn)]_vars
    /\ [][(InStep /\ Top.phase = "translate") =>
            /\ Len(llmCalls') = Len(llmCalls) + 1
            /\ llmCalls'[Len(llmCalls')].phase = "resolve_translate"
            /\ pc' = "rlm_step" =>
                  /\ Top'.llm_calls = Top.llm_calls + 1
                  /\ Top'.immediate # <<>>
                  /\ Top'.immediate \in {Top.immediate} \cup LlmReplies
                  /\ Top'.resolution.immediate_text = Top'.immediate]_vars

\* C20 witness: an English draft for a French target was replaced by the
\* translation, the second and last call of the budget.
DraftTranslated ==
    /\ InStep
    /\ Top.phase = "resolved"
    /\ CallsAt("resolve_translate", Top.depth) = 1
    /\ LangBase(Top.target_lang) = <<"f", "r">>
    /\ Top.immediate = ReplyFrench
    /\ Top.llm_calls = budget.max_llm_calls_per_turn

\* The configured response language is forced: mode "locale" with a locale tag.
LocaleMode ==
    /\ settings.response_language_mode = "locale"
    /\ Strip(settings.voice_locale) # <<>>

\* The turn as it would be with another player language tag.
OtherLocales(c) == {[c EXCEPT !.locale = l] : l \in Locales \cup {<<>>}}

\* C21: in locale mode with a configured locale L, the system prompt of every
\* narration call carries the instruction to reply only in L, the translation
\* call targets L, and both are the same for every turn that differs from
\* this one in ctx.locale only.
LocaleModeIgnoresPlayer ==
    LocaleMode =>
        \A i \in 1..Len(llmCalls) :
            /\ llmCalls[i].phase = "resolve" =>
                  /\ llmCalls[i].system.language_policy =
                        [clause |-> "reply_only_in_locale",
                         lang |-> Strip(settings.voice_locale)]
                  /\ \A c \in OtherLocales(ctx) :
                        LanguagePolicy(c, settings) = llmCalls[i].system.language_policy
            /\ llmCalls[i].phase = "resolve_translate" =>
                  /\ llmCalls[i].target_lang = Strip(settings.voice_locale)
                  /\ \A c \in OtherLocales(ctx) :
                        TargetLang(c, settings) = llmCalls[i].target_lang

\* An English-speaking player under a forced French locale: the narration
\* call was made and the draft was sent to translation.
ForcedLocaleForEnglishPlayer ==
    /\ LocaleMode
    /\ ctx.locale = LocaleEnUS
    /\ settings.voice_locale = LocaleFrFR
    /\ \E i \in 1..Len(llmCalls) : llmCalls[i].phase = "resolve"
    /\ \E i \in 1..Len(llmCalls) :
          /\ llmCalls[i].phase = "resolve_translate"
          /\ llmCalls[i].target_lang = LocaleFrFR

\* The narration calls recorded so far.
NarrationCalls == {i \in 1..Len(llmCalls) : llmCalls[i].phase = "resolve"}

\* Some hit among the first MaxSnippets of the step has a text to show.
HasSnippet(hits) ==
    \E k \in 1..Min(MaxSnippets, Len(hits)) : hits[k].text # <<>>

\* C22: with knowledge disabled no retrieval is proposed, knowledge.search is
\* never called, the snippets section renders as "(none)" and the system
\* prompt has no knowledge policy; in every configuration the knowledge
\* policy is in the system prompt exactly when a non-empty snippet was found.
KnowledgeDisabledNoRetrieval ==
    /\ ~settings.knowledge_enabled =>
          /\ searchCalls = 0
          /\ \A j \in 1..Len(stack) :
                stack[j].retrievals = <<>> /\ stack[j].knowledge_hits = <<>>
          /\ \A i \in NarrationCalls :
                llmCalls[i].system.snippets = <<>> /\ ~llmCalls[i].system.kb_policy
    /\ \A i \in NarrationCalls, j \in 1..Len(stack) :
          stack[j].depth = llmCalls[i].depth =>
             (llmCalls[i].system.kb_policy <=> HasSnippet(stack[j].knowledge_hits))

\* Knowledge disabled, and the turn returned a narration the LLM drafted.
NarratedWithoutKnowledge ==
    /\ ~settings.knowledge_enabled
    /\ pc = "returned"
    /\ NarrationCalls # {}
    /\ returned.debug.depth = 0
    /\ returned.debug.retrieval_queries = 0

\* The steps of this turn that are past _interpret_intent.
Interpreted == {j \in 1..Len(stack) : stack[j].phase \notin {"enter", "interpret"}}

\* C23: with knowledge enabled each step builds exactly one RetrievalSpec;
\* GM-advice markers give doc_kind = gm_advice and no type filter, else rules
\* markers give type = "rules", else the type filter lists the matched
\* categories or, when none matched, the default list of a question or of
\* another utterance; the doc_id filter restricts to active_doc_ids whenever
\* that list is non-empty.
RoutingFollowsPriority ==
    settings.knowledge_enabled =>
        \A j \in Interpreted :
            LET text == Lower(Strip(ctx.transcript_text))
                r == stack[j].retrievals
            IN  /\ Len(r) = 1
                /\ r[1].query = ctx.transcript_text
                /\ IF AnyIn(text, GmAdviceMarkers)
                   THEN /\ r[1].filters.doc_kind = Scalar("gm_advice")
                        /\ r[1].filters.type = Absent
                   ELSE /\ r[1].filters.doc_kind = Absent
                        /\ IF AnyIn(text, RulesMarkers)
                           THEN r[1].filters.type = Scalar("rules")
                           ELSE IF MatchedTypes(text) # <<>>
                           THEN r[1].filters.type = List(MatchedTypes(text))
                           ELSE IF IsQuestion(text)
                           THEN r[1].filters.type = List(DefaultQuestionTypes)
                           ELSE r[1].filters.type = List(DefaultActionTypes)
                /\ settings.active_doc_ids # <<>> =>
                      r[1].filters.doc_id = List(settings.active_doc_ids)

\* "GM spell" carries a GM-advice and a rules marker and one document is
\* active: the search ran with doc_kind = gm_advice, no type filter, and the
\* doc_id filter.
GmAdviceWinsWithActiveDocs ==
    /\ ctx.transcript_text = TranscriptGmSpell
    /\ settings.active_doc_ids = <<"core">>
    /\ searchCalls = 1
    /\ \E j \in Interpreted :
          stack[j].retrievals[1].filters =
              [doc_id |-> List(<<"core">>), doc_kind |-> Scalar("gm_advice"),
               type |-> Absent]

\* The other branches of the routing were taken as well.
RoutedByCategories ==
    /\ ctx.transcript_text = TranscriptNpcTown
    /\ settings.knowledge_enabled
    /\ \E j \in Interpreted :
          stack[j].retrievals[1].filters.type = List(<<"characters", "locations">>)

RoutedAsQuestion ==
    /\ ctx.transcript_text = TranscriptWhy
    /\ settings.knowledge_enabled
    /\ \E j \in Interpreted :
          stack[j].retrievals[1].filters.type = List(DefaultQuestionTypes)

\* C24: with the resolver as shipped the step runs once, at depth 0, and never
\* calls itself (no rlm_recurse event); the plan handle_turn returns has no
\* follow-ups, no delayed events, debug.depth = 0, no nested follow-up
\* diagnostics, and the append_log entry as its only write.
ShippedResolverSingleStep ==
    resolver = "shipped" =>
        /\ ~Logged("rlm_recurse")
        /\ Len(stack) <= 1
        /\ \A j \in 1..Len(stack) : stack[j].depth = 0
        /\ Len(resolutions) <= 1
        /\ pc = "returned" =>
              /\ returned.followups = <<>>
              /\ returned.delayed_events = <<>>
              /\ returned.debug.depth = 0
              /\ DebugChain(returned.debug) = <<0>>
              /\ Len(returned.writes) = 1
              /\ returned.writes[1].kind = "append_log"

\* A turn of the shipped resolver returned under a budget that allows depth 1.
ShippedTurnReturnedWithDepthLeft ==
    /\ resolver = "shipped"
    /\ budget.max_depth = MaxDepthBound
    /\ pc = "returned"
    /\ Len(returned.writes) = 1
    /\ NarrationCalls # {}

\* ------------------------------------------------ RLMProcessor, properties
Pushed(kind) == \E i \in 1..Len(pipeline'.last.out) : pipeline'.last.out[i] = kind

\* This step is a process_frame call.
FrameStep == pipeline'.frames = pipeline.frames + 1

\* This step handles a TranscriptionFrame with a non-blank text.
TranscriptStep ==
    /\ FrameStep
    /\ pipeline'.last.kind = "transcription"
    /\ pipeline'.last.direction = "downstream"
    /\ Strip(pipeline'.last.text) # <<>>

\* This step handles a VADUserStoppedSpeakingFrame.
VadStopStep ==
    /\ FrameStep
    /\ pipeline'.last.kind = "vad_stop"
    /\ pipeline'.last.direction = "downstream"

\* The pending turn after this step's transcript was merged into it.
Merged ==
    StagePendingTurn(processor, pipeline'.last.player_id, LocaleEnUS,
                     pipeline'.last.text, pipeline'.last.finalized)

PendingCleared(p) ==
    /\ p.pending_transcript_text = <<>>
    /\ p.pending_player_id = ""
    /\ ~p.pending_seen_finalized

\* C25: when handle_turn raises during a flush, the processor pushes an error
\* message and the spoken apology, clears the pending turn and leaves the
\* last-flushed pair as it was; the frame after the failure is processed, and
\* the same transcript by the same player, finalized while VAD is inactive,
\* starts a new turn.
ControllerFailureHandled ==
    [][/\ (FrameStep /\ pipeline'.failed = pipeline.failed + 1) =>
            /\ Pushed("error")
            /\ Pushed("TextFrame:apology")
            /\ PendingCleared(processor')
            /\ processor'.last_flushed_player_id = processor.last_flushed_player_id
            /\ processor'.last_flushed_transcript_text =
                    processor.last_flushed_transcript_text
            /\ ~(/\ processor'.last_flushed_player_id = pipeline'.last.ctx.player_id
                 /\ processor'.last_flushed_transcript_text =
                        pipeline'.last.ctx.transcript_text)
       /\ (/\ pipeline.last.result = "failed"
           /\ TranscriptStep
           /\ pipeline'.last.finalized
           /\ ~processor.vad_active
           /\ Strip(pipeline'.last.text) = pipeline.last.ctx.transcript_text
           /\ pipeline'.last.player_id = pipeline.last.ctx.player_id) =>
            /\ pipeline'.calls = pipeline.calls + 1
            /\ pipeline'.last.ctx.transcript_text = pipeline.last.ctx.transcript_text
            /\ pipeline'.last.ctx.turn_id = ToString(processor.turn_counter + 1)
      ]_vars

\* A turn failed, and the same transcript sent again was handled as turn 2.
RetriedAfterFailure ==
    /\ pipeline.frames = 2
    /\ pipeline.failed = 1
    /\ pipeline.calls = 2
    /\ pipeline.last.result = "handled"
    /\ pipeline.last.ctx.turn_id = "2"
    /\ processor.last_flushed_transcript_text = TextGo

\* The pending turn a flush run by this step finds.
AtFlush == IF VadStopStep THEN processor ELSE Merged

\* This step runs _flush_pending_turn.
FlushStep ==
    \/ VadStopStep
    \/ TranscriptStep /\ pipeline'.last.finalized /\ ~processor.vad_active

\* C26: a pending turn whose player and text are those of the last turn
\* handled successfully is dropped: handle_turn is not called, the turn
\* counter stays, a turn_deduped message is pushed; and every flush that found
\* a non-empty pending text leaves the pending buffer empty.
DuplicateSuppressed ==
    [][(FlushStep /\ Strip(AtFlush.pending_transcript_text) # <<>>) =>
            /\ PendingCleared(processor')
            /\ IsDuplicateTurn(AtFlush) =>
                  /\ pipeline'.calls = pipeline.calls
                  /\ pipeline'.last.ctx = NoContext
                  /\ processor'.turn_counter = processor.turn_counter
                  /\ Pushed("debug:turn_deduped")
                  /\ ~Pushed("debug:turn_start")
            /\ ~IsDuplicateTurn(AtFlush) =>
                  /\ pipeline'.calls = pipeline.calls + 1
                  /\ processor'.turn_counter = processor.turn_counter + 1
      ]_vars

\* The transcript of the one turn handled so far came again and was dropped.
SecondFinalDeduped ==
    /\ pipeline.frames = 2
    /\ pipeline.calls = 1
    /\ pipeline.failed = 0
    /\ processor.turn_counter = 1
    /\ pipeline.last.kind = "transcription"
    /\ pipeline.last.result = "deduped"
    /\ processor.last_flushed_transcript_text = Strip(pipeline.last.text)
    /\ processor.pending_transcript_text = <<>>

\* C27: a finalized TranscriptionFrame with a non-blank text is followed by a
\* flush exactly when VAD is not active; while VAD is active, interim and
\* final transcripts are merged into the pending buffer and nothing is
\* flushed; a VADUserStoppedSpeakingFrame flushes the buffered text; so a
\* non-empty buffer is flushed when a VAD stop, or a finalized transcript
\* with VAD inactive, is processed.
FlushRule ==
    [][/\ (TranscriptStep /\ pipeline'.last.finalized) =>
            (pipeline'.last.result # "none" <=> ~processor.vad_active)
       /\ (/\ FrameStep
           /\ processor.vad_active
           /\ pipeline'.last.direction = "downstream"
           /\ pipeline'.last.kind \in {"interim", "transcription"}) =>
            /\ pipeline'.last.result = "none"
            /\ pipeline'.calls = pipeline.calls
            /\ processor'.pending_transcript_text =
                    MergeTranscriptText(processor.pending_transcript_text,
                                        pipeline'.last.text)
       /\ (FlushStep /\ Strip(AtFlush.pending_transcript_text) # <<>>) =>
            /\ pipeline'.last.result \in {"deduped", "failed", "handled"}
            /\ processor'.pending_transcript_text = <<>>
            /\ pipeline'.last.result # "deduped" =>
                  pipeline'.last.ctx.transcript_text =
                      Strip(AtFlush.pending_transcript_text)
      ]_vars

\* Speech started, an interim and a final transcript were buffered, and the
\* VAD stop turned the merged text into a turn.
BufferedTurnFlushedOnVadStop ==
    /\ pipeline.frames = 4
    /\ pipeline.calls = 1
    /\ pipeline.last.kind = "vad_stop"
    /\ pipeline.last.result = "handled"
    /\ pipeline.last.ctx.transcript_text = <<"g","o"," ","h","i">>
    /\ ~processor.vad_active

\* The index entry of the document an upload was begun for.
UploadEntry(u) == DocEntry(manager.index, manager.uploads[u].doc_id)

UnknownIdsRejected ==
    (manager.last.op \in {"upload_chunk", "finish_upload"} /\ ~manager.last.pre)
        => (~manager.last.ok /\ manager.last.error = "unknown upload_id")

FinishAtMostOnce == \A u \in UploadIds : manager.finished[u] <= 1

FinishedEntryUploaded ==
    (manager.last.op = "finish_upload" /\ manager.last.ok)
        => /\ HasDoc(manager.index, manager.last.doc_id)
           /\ UploadEntry(manager.last.upload).status = "uploaded"
           /\ UploadEntry(manager.last.upload).received_bytes
                 = manager.accepted[manager.last.upload]

\* While the entry finish_upload wrote stands, it counts every accepted chunk.
FinishedBytesAreAccepted ==
    \A u \in UploadIds :
        (/\ manager.finished[u] > 0
         /\ HasDoc(manager.index, manager.uploads[u].doc_id)
         /\ UploadEntry(u).path = u
         /\ UploadEntry(u).status = "uploaded")
            => UploadEntry(u).received_bytes = manager.accepted[u]

\* C29: upload_chunk and finish_upload raise 'unknown upload_id' unless the
\* id was returned by begin_upload and is not finished yet; finish_upload
\* succeeds at most once per upload; and after a finish_upload that
\* succeeded the document's index entry has status 'uploaded' and
\* received_bytes equal to the sum of the decoded lengths of the chunks
\* accepted for the upload.
UploadProtocol ==
    /\ UnknownIdsRejected
    /\ FinishAtMostOnce
    /\ FinishedEntryUploaded
    /\ FinishedBytesAreAccepted

\* An ingest_doc call on a document that was in the index, with a vector
\* store configured, has just ended.
IngestEnded ==
    manager.last.op = "ingest_doc" /\ manager.last.pre /\ manager.qdrant

StatusOf(doc_id) ==
    IF HasDoc(manager.index, doc_id) THEN DocEntry(manager.index, doc_id).status
    ELSE "absent"

\* C30: for a document present in the index and a configured vector store,
\* when ingest_doc terminates the document's status is 'ready' if it
\* returned and 'error' if it raised; it is never 'ingesting' then.
IngestLifecycle ==
    IngestEnded =>
        /\ StatusOf(manager.last.doc_id) = (IF manager.last.ok THEN "ready" ELSE "error")
        /\ StatusOf(manager.last.doc_id) # "ingesting"

\* The part of C30 about 'ingesting' alone.
NeverLeftIngesting == IngestEnded => StatusOf(manager.last.doc_id) # "ingesting"

ControlMessages == 1..Len(control.msgs)

\* The one reply a handled message got carries what _reply was given: the
\* request's req_id when it has one, no req_id otherwise.
CarriesReqId(r, req_id) ==
    IF req_id # None THEN "req_id" \in DOMAIN r /\ r.req_id = req_id
    ELSE "req_id" \notin DOMAIN r

Swallowed ==
    /\ \A i \in ControlMessages : control.msgs[i].forwarded = <<>>
    /\ \A k \in 1..Len(control.passed) :
          control.passed[k].kind = "client_message" => control.passed[k].direction = "upstream"

OneAtATime ==
    Cardinality({i \in ControlMessages : control.msgs[i].at \in {"handling", "announced"}}) <= 1

OneReplyEach ==
    \A i \in ControlMessages :
        LET m == control.msgs[i]
        IN  /\ m.at # "done" => m.replies = <<>>
            /\ m.at = "done" =>
                  /\ Len(m.replies) = 1
                  /\ CarriesReqId(m.replies[1], m.req_id)
                  /\ m.replies[1].type = (IF m.raised THEN "error" ELSE ResultType(m.type))
                  /\ m.type \notin KnownTypes => m.raised
            /\ \A k \in 1..Len(m.sends) : "req_id" \notin DOMAIN m.sends[k]

\* C28: a downstream client message is never pushed on, client messages
\* are handled one at a time, and each handled message gets exactly one
\* reply with its req_id: the result of its type, or an error payload when
\* its handling raised, as it does for a type without a branch.
ControlProtocol == Swallowed /\ OneAtATime /\ OneReplyEach

\* A message of an unknown type that had to wait for the lock got its
\* error reply, after a message of a known type got its result.
UnknownTypeAnswered ==
    \E i \in ControlMessages :
        /\ i > 1
        /\ control.msgs[1].at = "done" /\ ~control.msgs[1].raised
        /\ control.msgs[1].replies = <<Reply(control.msgs[1].req_id, ResultType(control.msgs[1].type))>>
        /\ control.msgs[i].type = "bogus"
        /\ control.msgs[i].req_id = <<"r1">>
        /\ control.msgs[i].at = "done"
        /\ control.msgs[i].replies = <<[type |-> "error", req_id |-> <<"r1">>]>>

\* C31: the stored settings always have between 1 and 8 player profiles
\* with pairwise distinct player_ids, active_player_id names one of them,
\* player_id equals active_player_id, and response_language_mode is
\* 'player' or 'locale'.
SettingsNormalized ==
    LET v == stored.settings
    IN  /\ Len(v.player_profiles) \in 1..MaxProfiles
        /\ \A i, j \in 1..Len(v.player_profiles) :
              v.player_profiles[i] = v.player_profiles[j] => i = j
        /\ v.active_player_id \in Range(v.player_profiles)
        /\ v.player_id = v.active_player_id
        /\ v.response_language_mode \in {ModePlayer, ModeLocale}

\* Two updates went through, and the store holds the eight profiles that
\* were kept of nine.
EightProfilesKept ==
    /\ stored.updates = MaxUpdates /\ stored.raised = 0
    /\ Len(stored.settings.player_profiles) = MaxProfiles
    /\ stored.settings.active_player_id = <<"p","1">>

\* C32: when an LLM completion raises, the exception leaves handle_turn and
\* nothing of the turn is committed: no plan is returned, apply_writes was
\* not called, the interaction log and the other tables the writes go to
\* are as before, no background task exists and turn_finished is not
\* logged; the campaign row ensured at the start is there.
LlmFailureCommitsNothing ==
    raised = "llm.complete" =>
        /\ pc = "raised"
        /\ returned = NoPlan
        /\ applyCalls = <<>>
        /\ db.interaction_log = <<>> /\ db.rows = <<>> /\ db.delayed_events = <<>>
        /\ bg = NoTask
        /\ ~Logged("turn_finished")
        /\ Len(CampaignRows(db, ctx.campaign_id)) = 1

\* The completion of the second level failed when the first level had
\* produced writes.
SecondLevelCompletionFailed ==
    /\ raised = "llm.complete"
    /\ Len(resolutions) = 1
    /\ resolutions[1].writes # <<>>
    /\ db.players # {}

\* The narration call of the step at this depth is among the completion calls.
DraftCalled(depth) ==
    \E k \in 1..Len(llmCalls) :
        llmCalls[k].phase = "resolve" /\ llmCalls[k].depth = depth

\* C33: a step makes the narration call exactly when the call count left by
\* its intent interpretation is below max_llm_calls_per_turn; and with a
\* maximum of one and a transcript shorter than 12 characters the turn's
\* only completion call is the classification and the returned
\* immediate_text is the fallback narration.
DraftIffBudgetLeft ==
    /\ \A i \in 1..Len(stack) :
          LET f == stack[i]
          IN  /\ f.phase \in {"draft", "translate", "resolved", "follow", "ret"} =>
                    (\/ DraftCalled(f.depth)
                     \/ f.phase = "draft")
                        <=> (f.resolve_llm_calls < budget.max_llm_calls_per_turn)
              /\ f.phase \in {"enter", "interpret", "classify", "read", "search"} =>
                    ~DraftCalled(f.depth)
    /\ (/\ budget.max_llm_calls_per_turn = 1
        /\ Len(ctx.transcript_text) < ShortTranscriptLen
        /\ pc = "returned") =>
          /\ Len(llmCalls) = 1
          /\ llmCalls[1].phase = "intent_classify"
          /\ returned.immediate_text = FallbackText
          /\ \A i \in 1..Len(resolutions) :
                resolutions[i].immediate_text = FallbackText

\* A short transcript under a maximum of one call: classified, then answered
\* with the fallback narration.
ClassifiedThenFallback ==
    /\ pc = "returned"
    /\ budget.max_llm_calls_per_turn = 1
    /\ Len(ctx.transcript_text) < ShortTranscriptLen
    /\ Len(llmCalls) = 1
    /\ llmCalls[1].phase = "intent_classify"
    /\ returned.immediate_text = FallbackText

\* ------------------------------------------- RLMProcessor, calls in flight
\* process_frame split at its awaits, for a call on a VAD frame and a call
\* on a transcript running at once.  A call that finds the lock free takes
\* it without yielding; a call that finds it held waits.
MaxLaneFrames == 4
LaneTexts == {TextGo, TextGoOn}

LaneStep(p, l) ==
    /\ processor' = p
    /\ lanes' = l
    /\ UNCHANGED <<config, parked, lastCall, turn, db, pipeline, manager, control, stored,
                   speakers>>

\* Variant: the lock is taken whoever holds it.
LaneLockIgnored(l) == TRUE

\* asyncio.Lock: free when nobody holds it.
LaneLockIsFree(l) == l.lock = ""

\* process_frame was called with a frame of this kind.
Begun(l, kind, finalized) ==
    [l EXCEPT !.frames = @ + 1,
              !.utterance.first = IF @ = "none" THEN kind ELSE @,
              !.utterance.starts = @ + (IF kind = "vad_start" THEN 1 ELSE 0),
              !.utterance.stops = @ + (IF kind = "vad_stop" THEN 1 ELSE 0),
              !.utterance.finals = @ + (IF kind = "transcription" /\ finalized THEN 1 ELSE 0)]

\* _flush_pending_turn up to its first await that matters, the caller `name`
\* holding the lock: nothing pending, a duplicate, or the turn counter is
\* advanced and handle_turn is called.
LaneFlushBegun(p, l, name) ==
    IF Strip(p.pending_transcript_text) = <<>>
    THEN LaneStep(p, [l EXCEPT !.act[name].pc = "release"])
    ELSE IF IsDuplicateTurn(p)
    THEN LaneStep(p, [l EXCEPT !.act[name].pc = "deduped"])
    ELSE LaneStep([p EXCEPT !.turn_counter = @ + 1],
                  [l EXCEPT !.act[name].pc = "handling",
                            !.act[name].ctx = FlushContext(p),
                            !.turn_ids = Append(@, FlushContext(p).turn_id)])

\* VADUserStartedSpeakingFrame
LaneVadStart ==
    /\ lanes.frames < MaxLaneFrames
    /\ lanes.act["sys"].pc = "idle"
    /\ LaneStep([processor EXCEPT !.vad_active = TRUE], Begun(lanes, "vad_start", FALSE))

\* VADUserStoppedSpeakingFrame: VAD is inactive at once; the flush waits for
\* the lock.
LaneVadStop ==
    /\ lanes.frames < MaxLaneFrames
    /\ lanes.act["sys"].pc = "idle"
    /\ LET p == [processor EXCEPT !.vad_active = FALSE]
           l == [Begun(lanes, "vad_stop", FALSE) EXCEPT !.act["sys"].kind = "vad_stop"]
       IN  IF LaneLockIsFree(lanes)
           THEN LaneFlushBegun(p, [l EXCEPT !.lock = "sys"], "sys")
           ELSE LaneStep(p, [l EXCEPT !.act["sys"].pc = "wait"])

\* The speaker of a transcript was resolved to `player`.
HeardFrom(l, player) == [l EXCEPT !.utterance.heard = @ \cup {player}]

\* InterimTranscriptionFrame with a non-blank text: staged under the lock,
\* which is released without an await in between.
LaneInterim ==
    /\ lanes.frames < MaxLaneFrames
    /\ lanes.act["data"].pc = "idle"
    /\ \E text \in LaneTexts :
          LET l == Begun(lanes, "interim", FALSE)
          IN  IF LaneLockIsFree(lanes)
              THEN \E player \in ResolvedPlayers :
                      LaneStep(StagePendingTurn(processor, player, LocaleEnUS, Strip(text), FALSE),
                               HeardFrom(l, player))
              ELSE LaneStep(processor,
                            [l EXCEPT !.act["data"] =
                                [IdleLane EXCEPT !.pc = "wait", !.kind = "interim",
                                                 !.text = text]])

\* TranscriptionFrame with a non-blank text: the lock is taken, the speaker
\* resolved, and the transcript reported to the client.
LaneTranscription ==
    /\ lanes.frames < MaxLaneFrames
    /\ lanes.act["data"].pc = "idle"
    /\ \E text \in LaneTexts, finalized \in BOOLEAN :
          LET l == Begun(lanes, "transcription", finalized)
              a == [IdleLane EXCEPT !.kind = "transcription", !.text = text,
                                    !.finalized = finalized]
          IN  IF LaneLockIsFree(lanes)
              THEN \E player \in ResolvedPlayers :
                      LaneStep(processor,
                               [HeardFrom(l, player) EXCEPT
                                   !.lock = "data",
                                   !.act["data"] = [a EXCEPT !.pc = "acquired",
                                                            !.player_id = player]])
              ELSE LaneStep(processor, [l EXCEPT !.act["data"] = [a EXCEPT !.pc = "wait"]])

\* The lock is free again and a waiting call takes it.
LaneAcquire ==
    \E name \in LaneNames :
        LET a == lanes.act[name]
        IN  /\ a.pc = "wait"
            /\ LaneLockIsFree(lanes)
            /\ IF a.kind = "vad_stop"
               THEN LaneFlushBegun(processor, [lanes EXCEPT !.lock = name], name)
               ELSE \E player \in ResolvedPlayers :
                       IF a.kind = "interim"
                       THEN LaneStep(StagePendingTurn(processor, player, LocaleEnUS,
                                                      Strip(a.text), FALSE),
                                     [HeardFrom(lanes, player) EXCEPT !.act[name] = IdleLane])
                       ELSE LaneStep(processor,
                                     [HeardFrom(lanes, player) EXCEPT
                                         !.lock = name,
                                         !.act[name].pc = "acquired",
                                         !.act[name].player_id = player])

\* The TranscriptionFrame is passed on and staged.
LaneStage ==
    /\ lanes.act["data"].pc = "acquired"
    /\ LET a == lanes.act["data"]
       IN  LaneStep(StagePendingTurn(processor, a.player_id, LocaleEnUS, a.text, a.finalized),
                    [lanes EXCEPT !.act["data"].pc = "staged"])

\* After the transcript_buffered message: a finalized transcript is flushed
\* when VAD is inactive now.
LaneFlushGuard ==
    /\ lanes.act["data"].pc = "staged"
    /\ IF FlushesAtOnce(processor, lanes.act["data"].finalized)
       THEN LaneFlushBegun(processor, lanes, "data")
       ELSE LaneStep(processor, [lanes EXCEPT !.act["data"].pc = "release"])

\* The turn_deduped message was pushed: the pending turn is cleared.
LaneDeduped ==
    \E name \in LaneNames :
        /\ lanes.act[name].pc = "deduped"
        /\ LaneStep(ClearPendingTurn(processor), [lanes EXCEPT !.act[name].pc = "release"])

\* handle_turn returns or raises: the turn is remembered as the last one
\* flushed when it returned, and the pending turn is cleared.
LaneHandleTurnEnds ==
    \E name \in LaneNames, raises \in BOOLEAN :
        LET c == lanes.act[name].ctx
        IN  /\ lanes.act[name].pc = "handling"
            /\ LaneStep(IF raises THEN ClearPendingTurn(processor)
                        ELSE ClearPendingTurn(
                                [processor EXCEPT
                                    !.last_flushed_player_id = c.player_id,
                                    !.last_flushed_transcript_text = c.transcript_text]),
                        [lanes EXCEPT !.act[name].pc = "release"])

\* The `async with self._lock` block is left.
LaneRelease ==
    \E name \in LaneNames :
        /\ lanes.act[name].pc = "release"
        /\ LaneStep(processor,
                    [lanes EXCEPT !.lock = IF @ = name THEN "" ELSE @,
                                  !.act[name] = IdleLane])

LaneInit == AtRest /\ stored = NewStore(DefaultSettings)

LaneNext ==
    \/ LaneVadStart
    \/ LaneVadStop
    \/ LaneInterim
    \/ LaneTranscription
    \/ LaneAcquire
    \/ LaneStage
    \/ LaneFlushGuard
    \/ LaneDeduped
    \/ LaneHandleTurnEnds
    \/ LaneRelease

LaneSpec == LaneInit /\ [][LaneNext]_vars

\* The process_frame calls that are awaiting handle_turn.
InFlight == {name \in LaneNames : lanes.act[name].pc = "handling"}

\* C34: at most one handle_turn call of the processor is in flight, the
\* caller of every flush holds the processor lock, and the turn ids handed
\* to handle_turn are 1, 2, 3, ... in the order of the calls, none twice.
OneTurnInFlight ==
    /\ Cardinality(InFlight) <= 1
    /\ \A name \in LaneNames :
          lanes.act[name].pc \in {"handling", "deduped"} => lanes.lock = name
    /\ \A i \in 1..Len(lanes.turn_ids) : lanes.turn_ids[i] = ToString(i)
    /\ processor.turn_counter = Len(lanes.turn_ids)

\* The second turn is being handled for the VAD stop while a transcript
\* waits for the lock.
TranscriptWaitsForTurn ==
    /\ lanes.act["sys"].pc = "handling"
    /\ lanes.act["sys"].ctx.turn_id = "2"
    /\ lanes.act["data"].pc = "wait"

\* The frames sent so far are those of one utterance of one speaker: a VAD
\* start first, no second VAD start or stop, no second finalized transcript.
OneUtterance ==
    /\ lanes.utterance.first = "vad_start"
    /\ lanes.utterance.starts = 1
    /\ lanes.utterance.stops <= 1
    /\ lanes.utterance.finals <= 1
    /\ Cardinality(lanes.utterance.heard) <= 1

\* C35: the frames of one utterance, in whatever order they arrive, make
\* the processor call handle_turn at most once.
OneTurnPerUtterance == OneUtterance => Len(lanes.turn_ids) <= 1

\* ------------------------------------------- RLMProcessor, speaker mapping
\* _resolve_player_id_from_speaker and the two branches of process_frame
\* that call it.  Ids are sequences of characters, as in the settings.
MaxSpeakerFrames == 3
IdPlayer2 == <<"p","l","a","y","e","r","2">>
DgSpk == <<"d","g","_","s","p","k","_">>
SpkZero == DgSpk \o <<"0">>
SpkOne == DgSpk \o <<"1">>
IdAlice == <<"a","l","i","c","e">>
\* What a frame's user_id may be: diarized speakers, a profile, another name,
\* nothing.
RawSpeakers == {SpkZero, SpkOne, IdPlayer2, IdAlice, <<>>}

\* f"{campaign_id}|{session_id}|{raw}", kept as its three parts.
MapKey(s, raw) == <<s.campaign_id, s.session_id, raw>>

\* dict.get and item assignment on _speaker_to_player.
MappedTo(m, raw) == IF raw \in DOMAIN m THEN m[raw] ELSE <<>>
Assign(m, raw, pid) == [x \in DOMAIN m \cup {raw} |-> IF x = raw THEN pid ELSE m[x]]

\* The first profile no speaker is mapped to, the first profile when all are.
RECURSIVE FirstUnused(_, _)
FirstUnused(profiles, used) ==
    IF profiles = <<>> THEN <<>>
    ELSE IF Head(profiles) \notin used THEN Head(profiles)
    ELSE FirstUnused(Tail(profiles), used)

\* _resolve_player_id_from_speaker(raw_user_id, settings, voiceprint), with
\* `pick` what _pick_player_from_voiceprint returns when there are several
\* profiles: the map afterwards and the triple returned.
ResolvePlayerIdFromSpeaker(m, s, raw_user_id, pick) ==
    LET raw == Strip(raw_user_id)
        profiles == s.player_profiles
        active == IF OrElse(s.active_player_id, s.player_id) \in Range(profiles)
                  THEN OrElse(s.active_player_id, s.player_id) ELSE profiles[1]
        diarized == raw # <<>> /\ StartsWith(Lower(raw), DgSpk)
        key == MapKey(s, raw)
        persisted == IF diarized /\ key \in DOMAIN s.speaker_mappings
                     THEN Strip(s.speaker_mappings[key]) ELSE <<>>
        unused == FirstUnused(profiles, {m[x] : x \in DOMAIN m})
        first ==
            IF ~diarized
            THEN [map |-> m, candidate |-> IF raw \in Range(profiles) THEN raw ELSE active,
                  speaker_mapped |-> FALSE]
            ELSE IF persisted # <<>> /\ persisted \in Range(profiles)
            THEN [map |-> Assign(m, raw, persisted), candidate |-> persisted,
                  speaker_mapped |-> FALSE]
            ELSE IF MappedTo(m, raw) \in Range(profiles)
            THEN [map |-> m, candidate |-> MappedTo(m, raw), speaker_mapped |-> FALSE]
            ELSE [map |-> Assign(m, raw, OrElse(unused, profiles[1])),
                  candidate |-> OrElse(unused, profiles[1]), speaker_mapped |-> TRUE]
        vp_pick == IF Len(profiles) <= 1 THEN first.candidate ELSE pick
        last == IF vp_pick = first.candidate THEN first
                ELSE IF diarized
                THEN [map |-> Assign(first.map, raw, vp_pick), candidate |-> vp_pick,
                      speaker_mapped |-> TRUE]
                ELSE [first EXCEPT !.candidate = vp_pick]
    IN  [map |-> last.map, candidate |-> last.candidate,
         speaker_mapped |-> last.speaker_mapped,
         map_key |-> IF last.speaker_mapped /\ diarized THEN key ELSE None]

SpeakerStep(sp, st) ==
    /\ speakers' = sp
    /\ stored' = st
    /\ UNCHANGED <<config, parked, lastCall, turn, db, processor, pipeline, manager, control,
                   lanes>>

\* The frame's speaker was resolved as `r`.
SpeakerResolved(r, raw) ==
    [speakers EXCEPT !.speaker_to_player = r.map,
                     !.assigned = IF r.speaker_mapped THEN @ \cup {Strip(raw)} ELSE @,
                     !.frames = @ + 1]

\* InterimTranscriptionFrame: the player is taken from the triple, the rest
\* of it is dropped.
SpeakerInterim ==
    /\ speakers.frames < MaxSpeakerFrames
    /\ \E raw \in RawSpeakers, pick \in Range(stored.settings.player_profiles) :
          LET r == ResolvePlayerIdFromSpeaker(speakers.speaker_to_player, stored.settings,
                                              raw, pick)
          IN  SpeakerStep(SpeakerResolved(r, raw), stored)

\* TranscriptionFrame: a new mapping is written to the settings, a failure
\* of the write to the settings file being swallowed, and told to the client.
SpeakerTranscription ==
    /\ speakers.frames < MaxSpeakerFrames
    /\ \E raw \in RawSpeakers, pick \in Range(stored.settings.player_profiles),
          written \in BOOLEAN :
          LET r == ResolvePlayerIdFromSpeaker(speakers.speaker_to_player, stored.settings,
                                              raw, pick)
              patch == [speaker_mappings |-> [k \in {r.map_key} |-> r.candidate]]
          IN  IF r.speaker_mapped
              THEN SpeakerStep(
                      [SpeakerResolved(r, raw) EXCEPT
                          !.emitted = Append(@, [speaker_raw_id |-> Strip(raw),
                                                 player_id |-> r.candidate])],
                      IF r.map_key # None
                      THEN [stored EXCEPT !.settings = Updated(@, patch),
                                          !.updates = @ + 1,
                                          !.raised = @ + (IF written THEN 0 ELSE 1)]
                      ELSE stored)
              ELSE written /\ SpeakerStep(SpeakerResolved(r, raw), stored)

\* Two player profiles; no speaker mapping yet, or one from an earlier run.
TwoPlayers == [DefaultSettings EXCEPT !.player_profiles = <<IdPlayer1, IdPlayer2>>]
SpeakerSettings ==
    {TwoPlayers,
     [TwoPlayers EXCEPT !.speaker_mappings =
         [k \in {MapKey(TwoPlayers, SpkOne)} |-> IdPlayer2]]}

SpeakerInit ==
    /\ AtRest
    /\ stored \in {NewStore(raw) : raw \in SpeakerSettings}

SpeakerNext == SpeakerInterim \/ SpeakerTranscription

SpeakerSpec == SpeakerInit /\ [][SpeakerNext]_vars

\* C36: every diarized speaker that was newly given a player in the
\* in-memory speaker map has that assignment in settings.voice.speaker_mappings
\* under campaign|session|speaker, and a speaker_map message saying so was
\* pushed, whichever kind of frame came first.
SpeakerAssignmentsPersisted ==
    \A raw \in speakers.assigned :
        LET key == MapKey(stored.settings, raw)
            pid == speakers.speaker_to_player[raw]
        IN  /\ key \in DOMAIN stored.settings.speaker_mappings
            /\ stored.settings.speaker_mappings[key] = pid
            /\ \E i \in 1..Len(speakers.emitted) :
                  speakers.emitted[i] = [speaker_raw_id |-> raw, player_id |-> pid]

\* C37: two handle_turn invocations for one campaign that does not exist
\* yet, interleaved at their awaits: neither ensure_campaign call is
\* rejected by the database, and once both are over there is exactly one
\* campaign row.
ConcurrentFirstTurnsSafe ==
    /\ raised # "IntegrityError"
    /\ parked.raised # "IntegrityError"
    /\ Len(CampaignRows(db, ctx.campaign_id)) <= 1
    /\ (/\ ctx.campaign_id = parked.ctx.campaign_id
        /\ pc \notin {"idle", "ensure_campaign", "ensure_campaign_commit", "raised"}
        /\ parked.pc \notin {"idle", "ensure_campaign", "ensure_campaign_commit", "raised"})
          => Len(CampaignRows(db, ctx.campaign_id)) = 1

\* The rows of campaign `id`, table by table.
RowsOfCampaign(d, id) ==
    [interaction_log |-> SelectSeq(d.interaction_log, LAMBDA r : r.campaign_id = id),
     rows |-> SelectSeq(d.rows, LAMBDA r : r.campaign_id = id)]

\* C38: a read returns the campaign row and log entries of its own campaign
\* only, and an apply_writes call leaves the rows of every other campaign
\* as they were, whatever the kinds of its writes.
CampaignIsolation ==
    /\ lastCall.op = "read" =>
          /\ lastCall.out.campaign.id \in {"", lastCall.ctx.campaign_id}
          /\ \A i \in 1..Len(lastCall.out.interaction_log) :
                \E k \in 1..Len(db.interaction_log) :
                    /\ db.interaction_log[k].campaign_id = lastCall.ctx.campaign_id
                    /\ db.interaction_log[k].entry = lastCall.out.interaction_log[i]
    /\ lastCall.op = "apply_writes" =>
          \A id \in CampaignIds \ {lastCall.ctx.campaign_id} :
              RowsOfCampaign(db, id) = RowsOfCampaign(lastCall.before, id)

\* C39: once delete_doc(doc_id) has returned, and until the document is
\* uploaded or ingested anew, the index has no entry for it and the vector
\* store no vector of it, whatever an ingest_doc that was running does later.
DeletedStaysDeleted ==
    \A doc_id \in manager.deleted :
        /\ ~HasDoc(manager.index, doc_id)
        /\ doc_id \notin manager.vectors

====
